---------------------------- MODULE Spec2Model ----------------------------
(***************************************************************************)
(* Streaming TTS proxy (mitrokun/streaming_tts_proxy).                     *)
(*                                                                         *)
(* One request of StreamProcessor.async_process_stream                     *)
(* (custom_components/streaming_tts_proxy/stream_processor.py), called     *)
(* through StreamingTtsProxyEntity.async_stream_tts_audio (tts.py): the    *)
(* probe of the primary and of the fallback server, the choice of the      *)
(* native or the sentence-based session, the two tasks and the queue of    *)
(* the native session, the segmenter and the per-sentence read loop of     *)
(* the sentence-based session, and the engine at the other end of the      *)
(* connection.                                                             *)
(*                                                                         *)
(* Text is a sequence of characters, each a one-element string.  The two   *)
(* non-Latin terminators are the tokens "DANDA" and "CJKSTOP"; "NL" is a   *)
(* newline.                                                                *)
(***************************************************************************)
EXTENDS Integers, Sequences, FiniteSets, TLC

None == "None"

-----------------------------------------------------------------------------
(* Bounds of the model. *)

\* fragments the caller's text stream delivers at most in sentence mode
MaxFragments == 1
\* fragments the caller's text stream delivers at most in a native session
NativeMaxFragments == 2
\* audio frames the engine produces at most during one request
MaxFrames == 2
\* number of text fragments fed to the segmenter taken alone
SegMaxFragments == 2

-----------------------------------------------------------------------------
(* Program constants. *)

\* const.py: DEFAULT_FALLBACK_SAMPLE_RATE
DEFAULT_FALLBACK_SAMPLE_RATE == 22050
\* _form_sentence: max_chars
max_chars == 250
\* tts.py async_stream_tts_audio: create_wav_header(22050, 16, 1, 0)
ENTITY_HEADER_RATE == 22050

-----------------------------------------------------------------------------
(* Python string operations on character sequences. *)

Digits == {"0", "1", "2", "3", "4", "5", "6", "7", "8", "9"}
Letters == {"a", "b", "c", "i", "p", "s", "x", "D", "E", "C"}
\* str.strip() and \s: whitespace characters
Whitespace == {" ", "NL"}
\* r"[.!?।。]"
Terminators == {".", "!", "?", "DANDA", "CJKSTOP"}
\* r'\w'
IsWordChar(c) == c \in Digits \cup Letters \cup {"_"}

Min(a, b) == IF a < b THEN a ELSE b
Max(a, b) == IF a > b THEN a ELSE b

\* s[a:b] with 0 <= a, 0 <= b
Slice(s, a, b) == SubSeq(s, a + 1, Min(b, Len(s)))
\* s[a:]
SliceFrom(s, a) == SubSeq(s, a + 1, Len(s))

\* s.strip()
Strip(s) ==
    LET keep == {i \in 1..Len(s) : s[i] \notin Whitespace}
    IN IF keep = {} THEN <<>>
       ELSE SubSeq(s, CHOOSE i \in keep : \A j \in keep : i <= j,
                      CHOOSE i \in keep : \A j \in keep : j <= i)

\* s.startswith(p, i) for 0-based i
StartsWithAt(s, p, i) ==
    /\ i + Len(p) <= Len(s)
    /\ \A k \in 1..Len(p) : s[i + k] = p[k]

\* s.replace(old, new): non-overlapping occurrences, left to right.  The
\* recursion goes from one occurrence to the next.
RECURSIVE ReplaceFrom(_, _, _, _)
ReplaceFrom(s, old, new, i) ==
    LET occ == {j \in i..(Len(s) - Len(old)) : StartsWithAt(s, old, j)}
    IN IF occ = {} THEN SliceFrom(s, i)
       ELSE LET j == CHOOSE j \in occ : \A k \in occ : j <= k
            IN Slice(s, i, j) \o new \o ReplaceFrom(s, old, new, j + Len(old))

Replace(s, old, new) == ReplaceFrom(s, old, new, 0)

\* DECIMAL_PLACEHOLDER = "##DEC##"
DECIMAL_PLACEHOLDER == <<"#", "#", "D", "E", "C", "#", "#">>

\* r'(\d)\.(\d)' matches at the 0-based index i
DecimalAt(s, i) ==
    /\ i + 3 <= Len(s)
    /\ s[i + 1] \in Digits
    /\ s[i + 2] = "."
    /\ s[i + 3] \in Digits

\* re.sub(r'(\d)\.(\d)', r'\1##DEC##\2', s): matches do not overlap, so in
\* "1.2.3" only the first point is replaced.  The recursion goes from one
\* match to the next.
RECURSIVE ProtectFrom(_, _)
ProtectFrom(s, i) ==
    LET occ == {j \in i..(Len(s) - 3) : DecimalAt(s, j)}
    IN IF occ = {} THEN SliceFrom(s, i)
       ELSE LET j == CHOOSE j \in occ : \A k \in occ : j <= k
            IN Slice(s, i, j) \o <<s[j + 1]>> \o DECIMAL_PLACEHOLDER
                   \o <<s[j + 3]>> \o ProtectFrom(s, j + 3)

ProtectDecimals(s) == ProtectFrom(s, 0)

Unprotect(s) == Replace(s, DECIMAL_PLACEHOLDER, <<".">>)

\* re.search(r"[.!?।。]", s): 0-based index of the first terminator, or -1
FirstTerminator(s) ==
    LET hits == {i \in 1..Len(s) : s[i] \in Terminators}
    IN IF hits = {} THEN -1
       ELSE (CHOOSE i \in hits : \A j \in hits : i <= j) - 1

\* s.rfind(" "): 0-based index of the last space, or -1
RFindSpace(s) ==
    LET hits == {i \in 1..Len(s) : s[i] = " "}
    IN IF hits = {} THEN -1
       ELSE (CHOOSE i \in hits : \A j \in hits : j <= i) - 1

\* StreamProcessor._form_sentence: <<sentence, rest>>
form_sentence(buffer_text) ==
    IF buffer_text = <<>> THEN << <<>>, <<>> >>
    ELSE
      LET safe_text == ProtectDecimals(buffer_text)
          m == FirstTerminator(safe_text)
      IN IF m >= 0
         THEN << Strip(Unprotect(Slice(safe_text, 0, m + 1))),
                 Strip(Unprotect(SliceFrom(safe_text, m + 1))) >>
         ELSE IF Len(safe_text) > max_chars
         THEN LET last_space_index ==
                      RFindSpace(Slice(safe_text, 0, max_chars + 20))
              IN IF last_space_index > 0
                 THEN << Strip(Unprotect(Slice(safe_text, 0, last_space_index))),
                         Strip(Unprotect(SliceFrom(safe_text, last_space_index))) >>
                 ELSE << Unprotect(Slice(safe_text, 0, max_chars)),
                         Unprotect(SliceFrom(safe_text, max_chars)) >>
         ELSE << <<>>, buffer_text >>

\* mutant: the unit is written whatever it holds
SpeakableText_unchecked(text) == Strip(text)

\* _synthesize_sentence, lines 275-277: the text written, or <<>> when the
\* unit is skipped
SpeakableText(text) ==
    LET clean_text == Strip(text)
    IN IF clean_text = <<>> \/ ~(\E i \in 1..Len(clean_text) : IsWordChar(clean_text[i]))
       THEN <<>>
       ELSE clean_text

-----------------------------------------------------------------------------
(* The state of one request. *)

VARIABLES
    self,           \* the StreamProcessor's fields (fixed at construction)
    pc,             \* where async_process_stream (with the session it runs) stands
    target_server,  \* the dict of the connected target, NoServer before
    conn,           \* per target: "idle", "connecting", "open", "failed", "closed"
    wire,           \* per target: the protocol messages written to it, in order
    engine,         \* the engine behind the connected target, and the link to it
    inflight,       \* events the engine has written and the proxy has not read
    text_stream,    \* the caller's text stream: fragments delivered, and ended
    text_buffer,    \* "".join(text_buffer) of _stream_by_sentence_to_target
    rest,           \* the remainder kept while a sentence is synthesized
    in_final,       \* the sentence being synthesized is final_text (line 234)
    audio_queue,    \* the asyncio.Queue of _stream_native_to_target
    writer_task,    \* None, "start", "iterating", "done", "cancelled"
    reader_task,    \* None, "reading", "done", "cancelled"
    out,            \* the items async_process_stream has yielded
    resp,           \* the items wav_generator (tts.py) has yielded
    error,          \* the exception that ended the request, or None
    hist            \* history: what happened, for the properties

vars == << self, pc, target_server, conn, wire, engine, inflight, text_stream,
           text_buffer, rest, in_final, audio_queue, writer_task, reader_task,
           out, resp, error, hist >>

Targets == {"primary", "fallback"}

\* create_wav_header(sample_rate, 16, 1) as an item of the output
Header(sample_rate) == [kind |-> "header", rate |-> sample_rate, audio |-> <<>>]
\* an audio payload as an item of the output
Audio(payload) == [kind |-> "audio", rate |-> 0, audio |-> payload]

\* Events of the wire protocol, engine to proxy.  unit is the number of the
\* message the engine was answering; audio is <<unit, n>> for frame n.
Event(type, unit, n) == [type |-> type, unit |-> unit, n |-> n]
EOF == Event("eof", 0, 0)

\* Messages of the wire protocol, proxy to engine.
Message(type, text, voice) == [type |-> type, text |-> text, voice |-> voice]

\* Items of audio_queue
QAudio(payload) == [kind |-> "audio", audio |-> payload]
QException == [kind |-> "exception", audio |-> <<>>]
QSentinel == [kind |-> "None", audio |-> <<>>]

\* line 87: target_server = None
NoServer ==
    [ writer |-> None, sample_rate |-> 0, voice |-> None, is_primary |-> FALSE ]

\* The text fragments the caller's stream can deliver: "a.._." holds a
\* sentence, a unit without any word character and a unit whose only word
\* character is the underscore; "b" is text without a terminator.
Fragments == { <<"a", ".", ".", "_", ".">>, <<"b">> }

\* StreamProcessor.__init__.  A port or a sample rate that is not configured
\* (None) is 0 here: the code only tests them for truth.
StreamProcessor(pss, fss, rate, fhost, fport, fvoice, frate, cb) ==
    [ primary_supports_streaming |-> pss,
      fallback_supports_streaming |-> fss,
      sample_rate |-> rate,
      fallback_tts_host |-> fhost,
      fallback_tts_port |-> fport,
      fallback_voice |-> fvoice,
      fallback_sample_rate |-> IF frate = 0 THEN DEFAULT_FALLBACK_SAMPLE_RATE
                                            ELSE frate,
      on_primary_connect_callback |-> cb,
      voice_name |-> "male_01" ]

\* The processors a request can run on: both capability flags; a fallback
\* address that is configured, or lacks the host, or lacks the port; and two
\* settings of the rest (the rates of the two targets differ in the first
\* and are the default in the second).
Processors ==
    { StreamProcessor(pss, fss, d[1], fb[1], fb[2], d[2], d[3], d[4]) :
        pss \in BOOLEAN, fss \in BOOLEAN,
        fb \in { <<"fb", 10201>>, <<None, 10201>>, <<"fb", 0>> },
        d \in { <<16000, "fv", 24000, TRUE>>, <<22050, None, 0, FALSE>> } }

Init ==
    /\ self \in Processors
    /\ pc = "init"
    /\ target_server = NoServer
    /\ conn = [t \in Targets |-> "idle"]
    /\ wire = [t \in Targets |-> <<>>]
    /\ engine = [link |-> "up", pos |-> 0, sent |-> 0, frames |-> 0,
                 mode |-> "unknown"]
    /\ inflight = <<>>
    /\ text_stream = [fed |-> <<>>, done |-> FALSE]
    /\ text_buffer = <<>>
    /\ rest = <<>>
    /\ in_final = FALSE
    /\ audio_queue = <<>>
    /\ writer_task = None
    /\ reader_task = None
    /\ out = <<>>
    /\ resp = <<>>
    /\ error = None
    /\ hist = [ frames_read |-> <<>>, timed_out |-> <<>>, callbacks |-> 0,
                units |-> <<>>, sessions |-> <<>>, faults |-> 0,
                read_from |-> {}, errors_read |-> 0, calls |-> <<>>,
                queued |-> <<>>, callback |-> None ]

-----------------------------------------------------------------------------
(* async_process_stream: probing and dispatch. *)

\* lines 95-99: the target_server dict of the primary
PrimaryServer ==
    [ writer |-> "primary", sample_rate |-> self.sample_rate,
      voice |-> self.voice_name, is_primary |-> TRUE ]

\* mutant: the fallback's dict is given the primary's sample rate
FallbackServer_primary_rate ==
    [ writer |-> "fallback", sample_rate |-> self.sample_rate,
      voice |-> self.fallback_voice, is_primary |-> FALSE ]

\* lines 114-118: the target_server dict of the fallback
FallbackServer ==
    [ writer |-> "fallback", sample_rate |-> self.fallback_sample_rate,
      voice |-> self.fallback_voice, is_primary |-> FALSE ]

\* mutant: only the fallback host is tested
FallbackConfigured_host_only == self.fallback_tts_host # None

\* line 105, negated: a fallback host and a fallback port are configured
FallbackConfigured ==
    self.fallback_tts_host # None /\ self.fallback_tts_port # 0

\* mutant: the fallback is tried whatever the primary probe gave
NeedsFallback_always(server) == TRUE

\* line 104: no target yet, so the fallback is to be tried
NeedsFallback(server) == server = NoServer

\* mutant: the primary's flag decides for both targets
should_use_native_stream_primary_flag(server) == self.primary_supports_streaming

\* lines 125-129
should_use_native_stream(server) ==
    \/ server.is_primary /\ self.primary_supports_streaming
    \/ ~server.is_primary /\ self.fallback_supports_streaming

\* the outcomes of asyncio.wait_for(asyncio.open_connection(...), timeout)
ProbeResults == {"connected", "ConnectionRefusedError", "TimeoutError", "OSError"}

\* mutant: an attempt that timed out is not cancelled and completes later
Attempt_left_open(result) ==
    IF result \in {"connected", "TimeoutError"} THEN "open" ELSE "failed"

\* lines 91-94, 109-112: what is left of a connection attempt when wait_for
\* returns or raises; on a timeout wait_for cancels the attempt
Attempt(result) == IF result = "connected" THEN "open" ELSE "failed"

\* a yield of async_process_stream; wav_generator (tts.py 194-195) yields
\* the item on at once
Yield(item) ==
    /\ out' = Append(out, item)
    /\ resp' = Append(resp, item)

\* mutant: the writer is left open
CloseWriter_forgotten == conn

\* lines 146-151: the finally of async_process_stream closes the writer
CloseWriter == [conn EXCEPT ![target_server.writer] = "closed"]

\* mutant: the finally of the native session cancels nothing
Cancel_nothing(task) == task

\* lines 203-204: the finally of _stream_native_to_target cancels a task
Cancel(task) == IF task \in {None, "done"} THEN task ELSE "cancelled"

\* the request ends after streaming began: the finally blocks of the session
\* and of async_process_stream run, then the generator returns or raises
Finish(err) ==
    /\ conn' = CloseWriter
    /\ writer_task' = Cancel(writer_task)
    /\ reader_task' = Cancel(reader_task)
    /\ pc' = IF err = None THEN "done" ELSE "failed"
    /\ error' = err

\* the request is over: the generator returned ("done"), raised ("failed"), or
\* was stopped by its caller and finalized ("closed")
Ended(p) == p \in {"done", "failed", "closed"}

\* What the end of the request leaves behind, to be used after pc' is set:
\* the closed connection discards the unread events (q), the engine's handler
\* (e) ends with it, and the queue of the native session (q) is gone with the
\* generator
Unread(q) == IF Ended(pc') THEN <<>> ELSE q
Handler(e) ==
    IF Ended(pc') THEN [e EXCEPT !.link = "closed", !.sent = 0, !.mode = "unknown"]
    ELSE e

\* mutant: only the native session yields the header
Dispatch_header_native_only(server) ==
    /\ target_server' = server
    /\ pc' = IF should_use_native_stream(server) THEN "native_header"
                                                  ELSE "sentence_header"
    /\ hist' = [hist EXCEPT !.sessions =
                   Append(@, IF should_use_native_stream(server)
                             THEN "native" ELSE "sentence")]
    /\ IF should_use_native_stream(server)
       THEN Yield(Header(server.sample_rate))
       ELSE UNCHANGED << out, resp >>
    /\ error' = error

\* lines 124-144 up to the first yield of the session (line 159 or 212)
Dispatch(server) ==
    /\ target_server' = server
    /\ pc' = IF should_use_native_stream(server) THEN "native_header"
                                                  ELSE "sentence_header"
    /\ hist' = [hist EXCEPT !.sessions =
                   Append(@, IF should_use_native_stream(server)
                             THEN "native" ELSE "sentence")]
    /\ Yield(Header(server.sample_rate))
    /\ error' = error

\* mutant: the failure of the fallback probe is swallowed
BothUnavailable_swallowed ==
    /\ pc' = "done"
    /\ error' = None
    /\ UNCHANGED << target_server, out, resp, hist >>

\* lines 120-122
BothUnavailable ==
    /\ pc' = "failed"
    /\ error' = "Both primary and fallback TTS servers are unavailable."
    /\ UNCHANGED << target_server, out, resp, hist >>

\* lines 105-107
NoFallback ==
    /\ pc' = "failed"
    /\ error' = "Primary TTS server is unavailable and no fallback is configured."
    /\ UNCHANGED << target_server, out, resp, hist >>

\* tts.py 190-193: wav_generator yields its own header before it starts
\* async_process_stream
WavGeneratorStart ==
    /\ pc = "init"
    /\ resp' = Append(resp, Header(ENTITY_HEADER_RATE))
    /\ pc' = "start"
    /\ UNCHANGED << self, target_server, conn, wire, engine, inflight,
                    text_stream, text_buffer, rest, in_final, audio_queue,
                    writer_task, reader_task, out, error, hist >>

\* lines 87-94: the primary connection attempt starts
ProbePrimaryStart ==
    /\ pc = "start"
    /\ conn' = [conn EXCEPT !["primary"] = "connecting"]
    /\ pc' = "probe_primary"
    /\ UNCHANGED << self, target_server, wire, engine, inflight, text_stream,
                    text_buffer, rest, in_final, audio_queue, writer_task,
                    reader_task, out, resp, error, hist >>

\* lines 91-122: the primary attempt ends; on failure the fallback attempt
\* starts (or the request fails) in the same step
ProbePrimaryDone ==
    /\ pc = "probe_primary"
    /\ \E result \in ProbeResults :
         LET server == IF result = "connected" THEN PrimaryServer ELSE NoServer
         IN IF NeedsFallback(server)
            THEN IF FallbackConfigured
                 THEN /\ conn' = [conn EXCEPT
                            !["primary"] = Attempt(result),
                            !["fallback"] = "connecting"]
                      /\ pc' = "probe_fallback"
                      /\ UNCHANGED << target_server, out, resp, error, hist >>
                 ELSE /\ conn' = [conn EXCEPT
                            !["primary"] = Attempt(result)]
                      /\ NoFallback
            ELSE /\ conn' = [conn EXCEPT !["primary"] = "open"]
                 /\ Dispatch(server)
    /\ UNCHANGED << self, wire, engine, inflight, text_stream, text_buffer,
                    rest, in_final, audio_queue, writer_task, reader_task >>

\* lines 108-122: the fallback attempt ends
ProbeFallbackDone ==
    /\ pc = "probe_fallback"
    /\ \E result \in ProbeResults :
         IF result = "connected"
         THEN /\ conn' = [conn EXCEPT !["fallback"] = "open"]
              /\ Dispatch(FallbackServer)
         ELSE /\ conn' = [conn EXCEPT !["fallback"] = Attempt(result)]
              /\ BothUnavailable
    /\ UNCHANGED << self, wire, engine, inflight, text_stream, text_buffer,
                    rest, in_final, audio_queue, writer_task, reader_task >>

-----------------------------------------------------------------------------
(* _stream_by_sentence_to_target and _synthesize_sentence. *)

\* the generator goes on: nothing is closed, nothing is raised
Stay(newpc) ==
    /\ pc' = newpc
    /\ UNCHANGED << conn, writer_task, reader_task, error >>

\* history: an AudioChunk has been read from the reader of target_server
FrameRead(h, event) ==
    [h EXCEPT !.frames_read = Append(@, <<event.unit, event.n>>),
              !.read_from = @ \cup {target_server.writer}]

\* lines 183-186 and 293-296: an event that is neither a terminal event of
\* the loop nor an AudioChunk falls through both tests and the loop reads on;
\* the history counts the Error events read this way
EventIgnored(h, event) ==
    IF event.type = "error" THEN [h EXCEPT !.errors_read = @ + 1] ELSE h

\* the connection to the engine is not lost: reads and writes do not raise
LinkUp == engine.link # "lost"

\* mutant: the message overtakes those written before it
Write_at_head(msg) == [wire EXCEPT ![target_server.writer] = <<msg>> \o @]

\* async_write_event(event, writer) on the connected target
Write(msg) == [wire EXCEPT ![target_server.writer] = Append(@, msg)]

\* lines 161-162 and 214-215: the notification task is created
\* mutant: the notification task is created whatever the target
StartCallback_any_target(h) ==
    IF self.on_primary_connect_callback
    THEN [h EXCEPT !.callbacks = @ + 1, !.callback = "running"]
    ELSE h

StartCallback(h) ==
    IF target_server.is_primary /\ self.on_primary_connect_callback
    THEN [h EXCEPT !.callbacks = @ + 1, !.callback = "running"]
    ELSE h

\* lines 279-282
Synthesize(text) == Message("synthesize", text, target_server.voice)

\* lines 222-230 with lines 275-277: the while loop runs from current_text
\* until a sentence is to be written (text), or no sentence can be formed;
\* buffer is "".join(text_buffer) at that point, units the sentences passed
\* to _synthesize_sentence on the way
RECURSIVE NextUnit(_, _)
NextUnit(current_text, passed) ==
    IF current_text = <<>>
    THEN [text |-> <<>>, buffer |-> current_text, rest |-> <<>>, units |-> passed]
    ELSE LET fs == form_sentence(current_text)
         IN IF fs[1] = <<>>
            THEN [text |-> <<>>, buffer |-> current_text, rest |-> <<>>,
                  units |-> passed]
            ELSE IF SpeakableText(fs[1]) = <<>>
                 THEN NextUnit(fs[2], Append(passed, fs[1]))
                 ELSE [text |-> SpeakableText(fs[1]), buffer |-> current_text,
                       rest |-> fs[2], units |-> Append(passed, fs[1])]

\* lines 222-230 and 284: the loop goes on from current_text; the write of
\* line 284 raises when the connection is lost
SentenceLoop(current_text, h) ==
    LET r == NextUnit(current_text, <<>>)
        h2 == [h EXCEPT !.units = @ \o r.units]
    IN /\ text_buffer' = r.buffer
       /\ rest' = r.rest
       /\ in_final' = FALSE
       /\ hist' = h2
       /\ IF r.text = <<>>
          THEN /\ Stay("sentence_text")
               /\ wire' = wire
          ELSE IF LinkUp
               THEN /\ Stay("sentence_read")
                    /\ wire' = Write(Synthesize(r.text))
               ELSE /\ Finish("write failed")
                    /\ wire' = wire

\* lines 232-235: the text stream has ended
SentenceFinal(h) ==
    LET final_text == Strip(text_buffer)
    IN /\ UNCHANGED << text_buffer, rest >>
       /\ hist' = IF final_text = <<>> THEN h
                  ELSE [h EXCEPT !.units = Append(@, final_text)]
       /\ IF SpeakableText(final_text) = <<>>
          THEN /\ Finish(None)
               /\ wire' = wire
               /\ in_final' = in_final
          ELSE IF LinkUp
               THEN /\ Stay("sentence_read")
                    /\ wire' = Write(Synthesize(SpeakableText(final_text)))
                    /\ in_final' = TRUE
               ELSE /\ Finish("write failed")
                    /\ wire' = wire
                    /\ in_final' = in_final

\* lines 286-296 left by break: the sentence is finished; lines 227-228 or
\* the end of the generator follow
UnitEnded(h) ==
    IF in_final
    THEN /\ Finish(None)
         /\ hist' = h
         /\ UNCHANGED << wire, text_buffer, rest, in_final >>
    ELSE SentenceLoop(rest, h)

\* mutant: asyncio.TimeoutError of the read is not caught
OnTimeout_raises(h) ==
    /\ Finish("TimeoutError")
    /\ hist' = [h EXCEPT !.timed_out = Append(@, Len(wire[target_server.writer]))]
    /\ UNCHANGED << wire, text_buffer, rest, in_final >>

\* lines 289-291: asyncio.TimeoutError of the read is caught
OnTimeout(h) ==
    UnitEnded([h EXCEPT !.timed_out = Append(@, Len(wire[target_server.writer]))])

\* lines 212-218: the caller asks for the item after the header
SentenceResume ==
    /\ pc = "sentence_header"
    /\ hist' = StartCallback(hist)
    /\ Stay("sentence_text")
    /\ UNCHANGED << self, target_server, wire, engine, inflight, text_stream,
                    text_buffer, rest, in_final, audio_queue, out, resp >>

\* lines 218-230: the text stream delivers a fragment
SentenceNextText ==
    /\ pc = "sentence_text"
    /\ ~text_stream.done
    /\ Len(text_stream.fed) < MaxFragments
    /\ \E text_chunk \in Fragments :
         /\ text_stream' = [text_stream EXCEPT !.fed = Append(@, text_chunk)]
         /\ SentenceLoop(text_buffer \o text_chunk, hist)
    /\ inflight' = Unread(inflight)
    /\ engine' = Handler(engine)
    /\ UNCHANGED << self, target_server, audio_queue, out, resp >>

\* lines 218, 232-235: the text stream ends
SentenceTextEnd ==
    /\ pc = "sentence_text"
    /\ ~text_stream.done
    /\ text_stream' = [text_stream EXCEPT !.done = TRUE]
    /\ SentenceFinal(hist)
    /\ inflight' = Unread(inflight)
    /\ engine' = Handler(engine)
    /\ UNCHANGED << self, target_server, audio_queue, out, resp >>

\* mutant: the first AudioChunk ends the loop as well
EndsUnit_at_chunk(event) == event.type \in {"eof", "audio-stop", "audio-chunk"}

\* line 293: the events on which the read loop of a unit breaks
EndsUnit(event) == event.type \in {"eof", "audio-stop"}

\* lines 286-296: an event (or the end of the connection) is read
SentenceRead ==
    /\ pc = "sentence_read"
    /\ LinkUp
    /\ inflight # <<>>
    /\ LET event == Head(inflight)
       IN \/ /\ EndsUnit(event)
             /\ UnitEnded(hist)
             /\ inflight' = Unread(IF event.type = "eof" THEN inflight
                                   ELSE Tail(inflight))
             /\ UNCHANGED << out, resp >>
          \/ /\ ~EndsUnit(event)
             /\ event.type = "audio-chunk"
             /\ inflight' = Tail(inflight)
             /\ Yield(Audio(<<event.unit, event.n>>))
             /\ hist' = FrameRead(hist, event)
             /\ Stay("sentence_yield")
             /\ UNCHANGED << wire, text_buffer, rest, in_final >>
          \/ /\ ~EndsUnit(event)
             /\ event.type # "audio-chunk"
             /\ inflight' = Tail(inflight)
             /\ Stay("sentence_read")
             /\ hist' = EventIgnored(hist, event)
             /\ UNCHANGED << wire, text_buffer, rest, in_final, out, resp >>
    /\ engine' = Handler(engine)
    /\ UNCHANGED << self, target_server, text_stream, audio_queue >>

\* line 288: no event arrives within TIMEOUT_SECONDS
SentenceTimeout ==
    /\ pc = "sentence_read"
    /\ LinkUp
    /\ inflight = <<>>
    /\ OnTimeout(hist)
    /\ engine' = Handler(engine)
    /\ UNCHANGED << self, target_server, inflight, text_stream, audio_queue,
                    out, resp >>

\* line 288: async_read_event raises because the connection is lost; nothing
\* catches it
SentenceReadFails ==
    /\ pc = "sentence_read"
    /\ ~LinkUp
    /\ Finish("read failed")
    /\ inflight' = Unread(inflight)
    /\ engine' = Handler(engine)
    /\ UNCHANGED << self, target_server, wire, text_stream, text_buffer, rest,
                    in_final, audio_queue, out, resp, hist >>

\* line 296: the caller asks for the next item
SentencePull ==
    /\ pc = "sentence_yield"
    /\ Stay("sentence_read")
    /\ UNCHANGED << self, target_server, wire, engine, inflight, text_stream,
                    text_buffer, rest, in_final, audio_queue, out, resp, hist >>

-----------------------------------------------------------------------------
(* _stream_native_to_target: the writer task, the reader task, the consumer. *)

\* mutant: the item is put at the head of the queue
QueuePut_at_head(q, item) == <<item>> \o q

\* audio_queue.put(item)
QueuePut(q, item) == Append(q, item)

\* history: the items put on audio_queue so far, in order
Queued(h, item) == [h EXCEPT !.queued = Append(@, item)]

\* lines 172-177: _write_text writes a message; the exception of a write on
\* a lost connection, or on a writer already closed, goes to the queue and
\* ends the task
WriterWrites(msg, next_state) ==
    IF LinkUp /\ conn[target_server.writer] = "open"
    THEN /\ wire' = Write(msg)
         /\ writer_task' = next_state
         /\ audio_queue' = audio_queue
         /\ hist' = hist
    ELSE /\ wire' = wire
         /\ writer_task' = "done"
         /\ audio_queue' = QueuePut(audio_queue, QException)
         /\ hist' = Queued(hist, QException)

\* lines 159-196: the caller asks for the item after the header; the queue
\* and the two tasks are created, the consumer waits on the queue
NativeResume ==
    /\ pc = "native_header"
    /\ hist' = StartCallback(hist)
    /\ audio_queue' = <<>>
    /\ writer_task' = "start"
    /\ reader_task' = "reading"
    /\ pc' = "native_get"
    /\ UNCHANGED << self, target_server, conn, wire, engine, inflight,
                    text_stream, text_buffer, rest, in_final, out, resp, error >>

\* lines 171-172: _write_text sends SynthesizeStart
WriterStart ==
    /\ writer_task = "start"
    /\ WriterWrites(Message("synthesize-start", <<>>, target_server.voice), "iterating")
    /\ UNCHANGED << self, pc, target_server, conn, engine, inflight, text_stream,
                    text_buffer, rest, in_final, reader_task, out, resp, error >>

\* lines 173-174: the text stream delivers a fragment, sent as SynthesizeChunk
WriterNextText ==
    /\ writer_task = "iterating"
    /\ ~text_stream.done
    /\ Len(text_stream.fed) < NativeMaxFragments
    /\ \E text_chunk \in Fragments :
         /\ text_stream' = [text_stream EXCEPT !.fed = Append(@, text_chunk)]
         /\ WriterWrites(Message("synthesize-chunk", text_chunk, None), "iterating")
    /\ UNCHANGED << self, pc, target_server, conn, engine, inflight, text_buffer,
                    rest, in_final, reader_task, out, resp, error >>

\* lines 173, 175: the text stream ends, SynthesizeStop is sent
WriterTextEnd ==
    /\ writer_task = "iterating"
    /\ ~text_stream.done
    /\ text_stream' = [text_stream EXCEPT !.done = TRUE]
    /\ WriterWrites(Message("synthesize-stop", <<>>, None), "done")
    /\ UNCHANGED << self, pc, target_server, conn, engine, inflight, text_buffer,
                    rest, in_final, reader_task, out, resp, error >>

\* mutant: the reader task is started when the writer task has finished
ReaderRuns_after_writer == reader_task = "reading" /\ writer_task = "done"

\* lines 192-193: both tasks are created before the consumer loop; the
\* reader task runs whatever the writer task does
ReaderRuns == reader_task = "reading"

\* lines 181-190: _read_audio reads an event (or the end of the connection)
ReaderRead ==
    /\ ReaderRuns
    /\ LinkUp
    /\ inflight # <<>>
    /\ LET event == Head(inflight)
       IN \/ /\ event.type \in {"eof", "synthesize-stopped"}
             /\ inflight' = IF event.type = "eof" THEN inflight ELSE Tail(inflight)
             /\ audio_queue' = QueuePut(audio_queue, QSentinel)
             /\ reader_task' = "done"
             /\ hist' = Queued(hist, QSentinel)
          \/ /\ event.type = "audio-chunk"
             /\ inflight' = Tail(inflight)
             /\ audio_queue' = QueuePut(audio_queue, QAudio(<<event.unit, event.n>>))
             /\ hist' = Queued(FrameRead(hist, event),
                              QAudio(<<event.unit, event.n>>))
             /\ reader_task' = reader_task
          \/ /\ event.type \notin {"eof", "synthesize-stopped", "audio-chunk"}
             /\ inflight' = Tail(inflight)
             /\ hist' = EventIgnored(hist, event)
             /\ UNCHANGED << audio_queue, reader_task >>
    /\ UNCHANGED << self, pc, target_server, conn, wire, engine, text_stream,
                    text_buffer, rest, in_final, writer_task, out, resp, error >>

\* lines 182, 187-190: async_read_event raises because the connection is
\* lost; the exception and then the sentinel go to the queue
ReaderFails ==
    /\ ReaderRuns
    /\ ~LinkUp
    /\ audio_queue' = QueuePut(QueuePut(audio_queue, QException), QSentinel)
    /\ reader_task' = "done"
    /\ hist' = Queued(Queued(hist, QException), QSentinel)
    /\ UNCHANGED << self, pc, target_server, conn, wire, engine, inflight,
                    text_stream, text_buffer, rest, in_final, writer_task, out,
                    resp, error >>

\* mutant: an exception taken from the queue is dropped and the loop goes on
Consume_drops_exception(item) ==
    \/ /\ item.kind = "None"
       /\ Finish(None)
       /\ UNCHANGED << out, resp >>
    \/ /\ item.kind = "exception"
       /\ Stay("native_get")
       /\ UNCHANGED << out, resp >>
    \/ /\ item.kind = "audio"
       /\ Yield(Audio(item.audio))
       /\ Stay("native_yield")

\* lines 197-201: what the consumer does with an item of the queue
Consume(item) ==
    \/ /\ item.kind = "None"
       /\ Finish(None)
       /\ UNCHANGED << out, resp >>
    \/ /\ item.kind = "exception"
       /\ Finish("stream failed")
       /\ UNCHANGED << out, resp >>
    \/ /\ item.kind = "audio"
       /\ Yield(Audio(item.audio))
       /\ Stay("native_yield")

\* lines 195-204: the consumer takes an item from the queue
NativeGet ==
    /\ pc = "native_get"
    /\ audio_queue # <<>>
    /\ Consume(Head(audio_queue))
    /\ audio_queue' = Unread(Tail(audio_queue))
    /\ inflight' = Unread(inflight)
    /\ engine' = Handler(engine)
    /\ UNCHANGED << self, target_server, wire, text_stream, text_buffer, rest,
                    in_final, hist >>

\* line 201: the caller asks for the next item
NativePull ==
    /\ pc = "native_yield"
    /\ Stay("native_get")
    /\ UNCHANGED << self, target_server, wire, engine, inflight, text_stream,
                    text_buffer, rest, in_final, audio_queue, out, resp, hist >>

-----------------------------------------------------------------------------
(* The caller stops consuming the stream.                                    *)

\* where the generators wait for something (the next text, an event, an item
\* of the queue) and where they are suspended at a yield
Waiting == {"sentence_text", "sentence_read", "native_get"}
Suspended == {"sentence_header", "sentence_yield", "native_header", "native_yield"}

\* The caller's task is cancelled while it awaits the next item: CancelledError
\* is raised at the await the chain of generators waits in (line 196, 218 or
\* 288) and goes up through the finally blocks of lines 202-204 and 145-151.
CallerCancelled ==
    /\ pc \in Waiting
    /\ pc' = "closed"
    /\ error' = "CancelledError"
    /\ conn' = CloseWriter
    /\ writer_task' = Cancel(writer_task)
    /\ reader_task' = Cancel(reader_task)
    /\ inflight' = Unread(inflight)
    /\ audio_queue' = Unread(audio_queue)
    /\ engine' = Handler(engine)
    /\ UNCHANGED << self, target_server, wire, text_stream, text_buffer, rest,
                    in_final, out, resp, hist >>

\* tts.py 192-195: the caller closes the generator it was handed while that
\* one is suspended at its yield.  wav_generator ends there; the async for
\* of line 194 does not close audio_generator, which stays suspended at its
\* own yield (line 137 or 144) until the finalizer of the event loop closes it.
CallerCloses ==
    /\ pc \in Suspended
    /\ pc' = "abandoned"
    /\ UNCHANGED << self, target_server, conn, wire, engine, inflight,
                    text_stream, text_buffer, rest, in_final, audio_queue,
                    writer_task, reader_task, out, resp, error, hist >>

\* what the reader of a connection closed on this side still delivers: the
\* events that had arrived, or none of them, and then the end of the stream
Delivered(q) ==
    { << EOF >>,
      IF q # <<>> /\ q[Len(q)].type = "eof" THEN q ELSE Append(q, EOF) }

\* lines 145-151: audio_generator is closed by the finalizer; GeneratorExit is
\* raised at line 137 or 144 and the finally closes the writer.  The async
\* for of line 136 or 143 does not close the session's generator, which the
\* finalizer closes next.
FinalizeProcessor ==
    /\ pc = "abandoned"
    /\ pc' = "abandoned_session"
    /\ conn' = CloseWriter
    /\ engine' = [engine EXCEPT !.link = IF @ = "lost" THEN @ ELSE "closed",
                                !.sent = 0, !.mode = "unknown"]
    /\ IF reader_task = "reading"
       THEN inflight' \in Delivered(inflight)
       ELSE inflight' = <<>>
    /\ UNCHANGED << self, target_server, wire, text_stream, text_buffer, rest,
                    in_final, audio_queue, writer_task, reader_task, out, resp,
                    error, hist >>

\* lines 202-204: the session's generator is closed by the finalizer;
\* GeneratorExit is raised at its yield (line 159 or 201, line 212 or 226 or
\* 235) and the finally of the native session cancels the two tasks
FinalizeSession ==
    /\ pc = "abandoned_session"
    /\ pc' = "closed"
    /\ writer_task' = Cancel(writer_task)
    /\ reader_task' = Cancel(reader_task)
    /\ inflight' = <<>>
    /\ audio_queue' = <<>>
    /\ UNCHANGED << self, target_server, conn, wire, engine, text_stream,
                    text_buffer, rest, in_final, out, resp, error, hist >>

-----------------------------------------------------------------------------
(* The engine behind the connected target (piper_fix handlers) and the link *)
(* to it.  The engine answers the messages in the order written, one after  *)
(* the other; pos messages are answered, the next one is being answered.    *)

Connected ==
    /\ target_server # NoServer
    /\ conn[target_server.writer] = "open"

EngineUp ==
    /\ Connected
    /\ engine.link = "up"
    /\ engine.pos < Len(wire[target_server.writer])

\* the message the engine is answering
Serving == wire[target_server.writer][engine.pos + 1]

\* the messages of the streaming protocol
NativeMessages == {"synthesize-start", "synthesize-chunk", "synthesize-stop"}

\* Which handler the engine runs shows at the first message of the streaming
\* protocol: the streaming one (1.6/handler.py with cli_args.streaming)
\* answers it, the plain one (handler.py, or 1.6/handler.py without the
\* option) ignores it.  CanAnswer: the engine answers the message it serves.
CanAnswer == Serving.type \in NativeMessages => engine.mode # "plain"
Answering(e) ==
    IF Serving.type \in NativeMessages THEN [e EXCEPT !.mode = "streaming"] ELSE e

\* AudioStart precedes the first event of a synthesis (handler.py 118-124,
\* 1.6/handler.py 145)
Started(events) ==
    IF engine.sent = 0 THEN << Event("audio-start", engine.pos + 1, 0) >> \o events
    ELSE events

\* an AudioChunk is written (handler.py 150-186, 1.6/handler.py 181-183)
EngineChunk ==
    /\ EngineUp
    /\ Serving.type # "synthesize-start"
    /\ engine.frames < MaxFrames
    /\ CanAnswer
    /\ engine' = [Answering(engine) EXCEPT !.frames = @ + 1, !.sent = @ + 1]
    /\ inflight' = inflight
          \o Started(<< Event("audio-chunk", engine.pos + 1, engine.frames + 1) >>)
    /\ UNCHANGED << self, pc, target_server, conn, wire, text_stream, text_buffer,
                    rest, in_final, audio_queue, writer_task, reader_task, out,
                    resp, error, hist >>

\* the answer to a message ends: AudioStop ends a synthesis (handler.py
\* 193-194, 1.6/handler.py 193), SynthesizeStopped answers SynthesizeStop
\* (1.6/handler.py 82-90), SynthesizeStart has no answer (1.6/handler.py 64-70)
EngineFinish ==
    /\ EngineUp
    /\ CanAnswer
    /\ engine' = [Answering(engine) EXCEPT !.pos = @ + 1, !.sent = 0]
    /\ inflight' = inflight
          \o (IF Serving.type = "synthesize"
                 \/ (Serving.type # "synthesize-start" /\ engine.sent > 0)
              THEN Started(<< Event("audio-stop", engine.pos + 1, 0) >>)
              ELSE <<>>)
          \o (IF Serving.type = "synthesize-stop"
              THEN << Event("synthesize-stopped", engine.pos + 1, 0) >>
              ELSE <<>>)
    /\ UNCHANGED << self, pc, target_server, conn, wire, text_stream, text_buffer,
                    rest, in_final, audio_queue, writer_task, reader_task, out,
                    resp, error, hist >>

\* the synthesis fails: Error and AudioStop are written and the handler
\* returns False, which ends the connection (handler.py 188-194,
\* 1.6/handler.py 94-99, 193)
EngineFail ==
    /\ EngineUp
    /\ Serving.type # "synthesize-start"
    /\ CanAnswer
    /\ engine' = [Answering(engine) EXCEPT !.link = "closed", !.sent = 0]
    /\ inflight' = inflight
          \o Started(IF Serving.type = "synthesize"
                     THEN << Event("error", engine.pos + 1, 0),
                             Event("audio-stop", engine.pos + 1, 0) >>
                     ELSE << Event("audio-stop", engine.pos + 1, 0),
                             Event("error", engine.pos + 1, 0) >>)
          \o << EOF >>
    /\ UNCHANGED << self, pc, target_server, conn, wire, text_stream, text_buffer,
                    rest, in_final, audio_queue, writer_task, reader_task, out,
                    resp, error, hist >>

\* handler.py 49-51, 1.6/handler.py 61-62: the plain handler returns True on
\* a message of the streaming protocol and writes nothing
EngineIgnores ==
    /\ EngineUp
    /\ Serving.type \in NativeMessages
    /\ engine.mode # "streaming"
    /\ engine' = [engine EXCEPT !.pos = @ + 1, !.mode = "plain"]
    /\ UNCHANGED << self, pc, target_server, conn, wire, inflight, text_stream,
                    text_buffer, rest, in_final, audio_queue, writer_task,
                    reader_task, out, resp, error, hist >>

\* tts.py 95-100: the notification task (trigger_voice_reload) ends, by
\* returning or by raising; nobody awaits the task, so its end reaches
\* nothing of the request
CallbackEnds ==
    /\ hist.callback = "running"
    /\ \E result \in {"done", "failed"} :
         hist' = [hist EXCEPT !.callback = result]
    /\ UNCHANGED << self, pc, target_server, conn, wire, engine, inflight,
                    text_stream, text_buffer, rest, in_final, audio_queue,
                    writer_task, reader_task, out, resp, error >>

\* the connection breaks: from now on reads and writes raise
ConnectionLost ==
    /\ Connected
    /\ engine.link # "lost"
    /\ engine' = [engine EXCEPT !.link = "lost", !.sent = 0]
    /\ inflight' = <<>>
    /\ hist' = [hist EXCEPT !.faults = @ + 1]
    /\ UNCHANGED << self, pc, target_server, conn, wire, text_stream, text_buffer,
                    rest, in_final, audio_queue, writer_task, reader_task, out,
                    resp, error >>

-----------------------------------------------------------------------------

Next ==
    \/ WavGeneratorStart
    \/ ProbePrimaryStart
    \/ ProbePrimaryDone
    \/ ProbeFallbackDone
    \/ SentenceResume
    \/ SentenceNextText
    \/ SentenceTextEnd
    \/ SentenceRead
    \/ SentenceTimeout
    \/ SentenceReadFails
    \/ SentencePull
    \/ NativeResume
    \/ WriterStart
    \/ WriterNextText
    \/ WriterTextEnd
    \/ ReaderRead
    \/ ReaderFails
    \/ NativeGet
    \/ NativePull
    \/ EngineChunk
    \/ EngineFinish
    \/ EngineFail
    \/ EngineIgnores
    \/ ConnectionLost
    \/ CallbackEnds
    \/ CallerCancelled
    \/ CallerCloses
    \/ FinalizeProcessor
    \/ FinalizeSession

Spec == Init /\ [][Next]_vars

-----------------------------------------------------------------------------
(* The segmenter taken alone: the loop of _stream_by_sentence_to_target over *)
(* _form_sentence, with the synthesis of each unit left out.                 *)

\* n times the character c
Run(c, n) == [i \in 1..n |-> c]

\* The text fragments fed to the segmenter: two sentences; a decimal number
\* in a sentence; a chain of points between digits; points only; text
\* without a terminator; a digit and a point; long text whose 249th and 251st characters are the
\* digits of a decimal number; 260 characters with a space at index 210; 260
\* characters without a space; 260 characters with a newline at index 240;
\* 260 characters that hold "##DEC##"; a sentence that holds "##DEC##";
\* 266 characters with spaces at the indices 210 and 260; two spaces and
\* 260 characters without a space; 248 characters that hold a decimal
\* number; the empty fragment; a sentence and a word with a space behind it;
\* a word and a point.
SegFragments ==
    { <<"a", "b", " ", "c", ".", " ", "b", "a">>,
      <<"3", ".", "1", "4", " ", "i", "s", " ", "p", "i", ".">>,
      <<"1", ".", "2", ".", "3", " ", "x", "!">>,
      <<".", ".", ".">>,
      <<"b", " ">>,
      <<"2", ".">>,
      Run("x", 248) \o <<"1", ".", "5">>,
      Run("x", 210) \o <<" ">> \o Run("x", 49),
      Run("x", 260),
      Run("x", 240) \o <<"NL">> \o Run("x", 19),
      Run("x", 100) \o DECIMAL_PLACEHOLDER \o Run("x", 153),
      <<"a">> \o DECIMAL_PLACEHOLDER \o <<"b", ".">>,
      Run("x", 210) \o <<" ">> \o Run("x", 49) \o <<" ">> \o Run("x", 5),
      <<" ", " ">> \o Run("x", 260),
      Run("x", 240) \o <<"1", ".", "5">> \o Run("x", 5),
      <<>>,
      <<"a", ".", " ", "b", " ">>,
      <<"c", ".">> }

\* lines 222-230: the while loop from current_text; units are the sentences
\* formed so far, calls the calls of _form_sentence with their results, and
\* buffer is "".join(text_buffer) when the loop is left
RECURSIVE Segment(_, _, _)
Segment(current_text, units, calls) ==
    IF current_text = <<>>
    THEN [units |-> units, calls |-> calls, buffer |-> current_text]
    ELSE LET fs == form_sentence(current_text)
             called == Append(calls, [buffer_text |-> current_text,
                                      sentence |-> fs[1], rest |-> fs[2]])
         IN IF fs[1] # <<>>
            THEN Segment(fs[2], Append(units, fs[1]), called)
            ELSE [units |-> units, calls |-> called, buffer |-> current_text]

SegInit ==
    /\ self = StreamProcessor(FALSE, FALSE, 22050, None, 0, None, 0, FALSE)
    /\ pc = "segmenter"
    /\ target_server = NoServer
    /\ conn = [t \in Targets |-> "idle"]
    /\ wire = [t \in Targets |-> <<>>]
    /\ engine = [link |-> "up", pos |-> 0, sent |-> 0, frames |-> 0,
                 mode |-> "unknown"]
    /\ inflight = <<>>
    /\ text_stream = [fed |-> <<>>, done |-> FALSE]
    /\ text_buffer = <<>>
    /\ rest = <<>>
    /\ in_final = FALSE
    /\ audio_queue = <<>>
    /\ writer_task = None
    /\ reader_task = None
    /\ out = <<>>
    /\ resp = <<>>
    /\ error = None
    /\ hist = [ frames_read |-> <<>>, timed_out |-> <<>>, callbacks |-> 0,
                units |-> <<>>, sessions |-> <<>>, faults |-> 0,
                read_from |-> {}, errors_read |-> 0, calls |-> <<>>,
                queued |-> <<>>, callback |-> None ]

\* lines 218-230: a fragment is appended to the buffer and the loop runs
SegNextText ==
    /\ pc = "segmenter"
    /\ Len(text_stream.fed) < SegMaxFragments
    /\ \E text_chunk \in SegFragments :
         LET r == Segment(text_buffer \o text_chunk, hist.units, <<>>)
         IN /\ text_stream' = [text_stream EXCEPT !.fed = Append(@, text_chunk)]
            /\ text_buffer' = r.buffer
            /\ hist' = [hist EXCEPT !.units = r.units, !.calls = r.calls]
    /\ UNCHANGED << self, pc, target_server, conn, wire, engine, inflight, rest,
                    in_final, audio_queue, writer_task, reader_task, out, resp,
                    error >>

\* lines 232-235: the text stream ends; what is left of the buffer is the
\* last unit
SegTextEnd ==
    /\ pc = "segmenter"
    /\ pc' = "segmented"
    /\ text_stream' = [text_stream EXCEPT !.done = TRUE]
    /\ LET final_text == Strip(text_buffer)
       IN hist' = [hist EXCEPT !.calls = <<>>,
                               !.units = IF final_text = <<>> THEN @
                                         ELSE Append(@, final_text)]
    /\ UNCHANGED << self, target_server, conn, wire, engine, inflight,
                    text_buffer, rest, in_final, audio_queue, writer_task,
                    reader_task, out, resp, error >>

SegNext == SegNextText \/ SegTextEnd

SegSpec == SegInit /\ [][SegNext]_vars

-----------------------------------------------------------------------------
(* The segmenter of the earlier iteration (src/streaming_tts_proxy) on its
   own. *)

\* number of text fragments fed to the earlier segmenter
LegacyMaxFragments == 2

\* line 84: the threshold for text without punctuation
legacy_max_chars == 200

\* s.split(punct, 1) for a punct that s holds: 1-based index of its first
\* occurrence
FirstIndexOf(s, punct) ==
    CHOOSE i \in 1..Len(s) : s[i] = punct /\ \A j \in 1..(i - 1) : s[j] # punct

\* src/streaming_tts_proxy/stream_processor.py 71-105: _form_sentence,
\* <<sentence, rest>>; the for loop of line 87 tries ".", then "!", then "?"
legacy_form_sentence(buffer_text) ==
    LET has(punct) == \E i \in 1..Len(buffer_text) : buffer_text[i] = punct
        split(punct) ==
            << SubSeq(buffer_text, 1, FirstIndexOf(buffer_text, punct)),
               SubSeq(buffer_text, FirstIndexOf(buffer_text, punct) + 1,
                      Len(buffer_text)) >>
    IN IF buffer_text = <<>> THEN << <<>>, <<>> >>
       ELSE IF has(".") THEN split(".")
       ELSE IF has("!") THEN split("!")
       ELSE IF has("?") THEN split("?")
       ELSE IF Len(buffer_text) >= legacy_max_chars
            THEN << buffer_text, <<>> >>
            ELSE << <<>>, buffer_text >>

\* The fragments fed: two sentences ended by "!" and "."; two ended by "?"
\* and "!"; text without punctuation; one sentence; 200 characters without
\* punctuation; the empty fragment.
LegacyFragments ==
    { <<"H", "i", "!", " ", "B", "y", "e", ".">>,
      <<"a", "?", "b", "!">>,
      <<"a", "b", " ">>,
      <<"c", ".">>,
      Run("x", 200),
      <<>> }

\* lines 39-48: the while loop from current_text
RECURSIVE LegacySegment(_, _, _)
LegacySegment(current_text, units, calls) ==
    IF current_text = <<>>
    THEN [units |-> units, calls |-> calls, buffer |-> current_text]
    ELSE LET fs == legacy_form_sentence(current_text)
             called == Append(calls, [buffer_text |-> current_text,
                                      sentence |-> fs[1], rest |-> fs[2]])
         IN IF fs[1] # <<>>
            THEN LegacySegment(fs[2], Append(units, fs[1]), called)
            ELSE [units |-> units, calls |-> called, buffer |-> current_text]

LegacyInit ==
    /\ self = StreamProcessor(FALSE, FALSE, 22050, None, 0, None, 0, FALSE)
    /\ pc = "legacy_segmenter"
    /\ target_server = NoServer
    /\ conn = [t \in Targets |-> "idle"]
    /\ wire = [t \in Targets |-> <<>>]
    /\ engine = [link |-> "up", pos |-> 0, sent |-> 0, frames |-> 0,
                 mode |-> "unknown"]
    /\ inflight = <<>>
    /\ text_stream = [fed |-> <<>>, done |-> FALSE]
    /\ text_buffer = <<>>
    /\ rest = <<>>
    /\ in_final = FALSE
    /\ audio_queue = <<>>
    /\ writer_task = None
    /\ reader_task = None
    /\ out = <<>>
    /\ resp = <<>>
    /\ error = None
    /\ hist = [ frames_read |-> <<>>, timed_out |-> <<>>, callbacks |-> 0,
                units |-> <<>>, sessions |-> <<>>, faults |-> 0,
                read_from |-> {}, errors_read |-> 0, calls |-> <<>>,
                queued |-> <<>>, callback |-> None ]

\* lines 32-58: a fragment is appended to the buffer and the loop runs; when
\* the syntheses of the loop took more than text_timeout, what is left is
\* synthesized too and the buffer is emptied
LegacyNextText ==
    /\ pc = "legacy_segmenter"
    /\ Len(text_stream.fed) < LegacyMaxFragments
    /\ \E text_chunk \in LegacyFragments, late \in BOOLEAN :
         LET r == LegacySegment(text_buffer \o text_chunk, hist.units, <<>>)
             final_text == Strip(r.buffer)
         IN /\ text_stream' = [text_stream EXCEPT !.fed = Append(@, text_chunk)]
            /\ text_buffer' = IF late THEN <<>> ELSE r.buffer
            /\ hist' = [hist EXCEPT
                          !.units = IF late /\ final_text # <<>>
                                    THEN Append(r.units, final_text)
                                    ELSE r.units,
                          !.calls = r.calls]
    /\ UNCHANGED << self, pc, target_server, conn, wire, engine, inflight, rest,
                    in_final, audio_queue, writer_task, reader_task, out, resp,
                    error >>

\* lines 60-65: the text stream ends; what is left of the buffer is the last
\* unit
LegacyTextEnd ==
    /\ pc = "legacy_segmenter"
    /\ pc' = "legacy_segmented"
    /\ text_stream' = [text_stream EXCEPT !.done = TRUE]
    /\ LET final_text == Strip(text_buffer)
       IN hist' = [hist EXCEPT !.calls = <<>>,
                               !.units = IF final_text = <<>> THEN @
                                         ELSE Append(@, final_text)]
    /\ UNCHANGED << self, target_server, conn, wire, engine, inflight,
                    text_buffer, rest, in_final, audio_queue, writer_task,
                    reader_task, out, resp, error >>

LegacyNext == LegacyNextText \/ LegacyTextEnd

LegacySpec == LegacyInit /\ [][LegacyNext]_vars

-----------------------------------------------------------------------------
(* The engine on its own: the handlers of src/piper_fix serving client      *)
(* connections, the process manager and the Piper processes behind it.      *)
(* Here self holds the handler in use and its option, wire[c] the messages  *)
(* client c sends, conn[c] the handler of that connection, out[c] the       *)
(* events written to the client, and engine the process manager.            *)

Clients == {"c1", "c2"}
Voices == {"v1", "v2"}

\* the chunks Piper writes for one text, and the processes ever started
EngineMaxChunks == 2
EngineMaxProcs == 2

\* a message of a client; sentences is what the sentence boundary detector
\* makes of it (sbd.add_chunk, sbd.finish): the sentences a chunk completes,
\* the remainder left at the stop
ClientMessage(type, voice, sentences) ==
    [type |-> type, voice |-> voice, sentences |-> sentences]

\* an event written to a client: request is the synthesis the handler is
\* answering, made_for the synthesis Piper produced the audio for
Reply(type, request, made_for) ==
    [type |-> type, request |-> request, made_for |-> made_for]

\* what the clients send over their connections, and the option the handler
\* runs with (cli_args.streaming): two requests for one voice next to a third
\* for the same voice; a message the plain handler does not know, and a
\* request for another voice; streaming sessions next to a plain request,
\* for the same voice and for another; a chunk outside a session; a session
\* sent to a handler that runs without the option
Scenario(version, streaming, c1, c2) ==
    [version |-> version, streaming |-> streaming,
     wire |-> [c \in Clients |-> IF c = "c1" THEN c1 ELSE c2]]

Scenarios ==
    { Scenario("plain", FALSE,
               << ClientMessage("synthesize", "v1", 0),
                  ClientMessage("synthesize", "v1", 0) >>,
               << ClientMessage("synthesize", "v1", 0) >>),
      Scenario("plain", FALSE,
               << ClientMessage("synthesize-start", "v1", 0),
                  ClientMessage("synthesize", "v1", 0) >>,
               << ClientMessage("synthesize", "v2", 0) >>),
      Scenario("1.6", TRUE,
               << ClientMessage("synthesize-start", "v1", 0),
                  ClientMessage("synthesize-chunk", None, 2),
                  ClientMessage("synthesize-stop", None, 0) >>,
               << ClientMessage("synthesize", "v1", 0) >>),
      Scenario("1.6", TRUE,
               << ClientMessage("synthesize-start", "v2", 0),
                  ClientMessage("synthesize-chunk", None, 0),
                  ClientMessage("synthesize-stop", None, 1),
                  ClientMessage("synthesize", "v2", 0) >>,
               << ClientMessage("synthesize", "v1", 0) >>),
      Scenario("1.6", TRUE,
               << ClientMessage("synthesize-chunk", None, 1) >>,
               << ClientMessage("synthesize", "v1", 0) >>),
      Scenario("1.6", FALSE,
               << ClientMessage("synthesize-start", "v1", 0),
                  ClientMessage("synthesize-chunk", None, 1),
                  ClientMessage("synthesize-stop", None, 1) >>,
               << ClientMessage("synthesize", "v1", 0) >>) }

\* a handler after construction (1.6/handler.py 36-44)
NewHandler ==
    [ at |-> "idle", pos |-> 0, is_streaming |-> FALSE, started |-> FALSE,
      voice |-> None, todo |-> 0, piper_proc |-> 0 ]

\* a Piper process after its start (process.py: PiperProcess)
NewProcess(voice) ==
    [ voice |-> voice, state |-> "running", stdin |-> <<>>, made |-> 0,
      stdout |-> <<>>, done |-> FALSE ]

EngineInit ==
    /\ \E scenario \in Scenarios :
         /\ self = [version |-> scenario.version,
                    streaming |-> scenario.streaming]
         /\ wire = scenario.wire
    /\ pc = "engine"
    /\ target_server = NoServer
    /\ conn = [c \in Clients |-> NewHandler]
    /\ engine = [lock |-> None, processes |-> [v \in Voices |-> 0],
                 procs |-> <<>>]
    /\ inflight = <<>>
    /\ text_stream = [fed |-> <<>>, done |-> FALSE]
    /\ text_buffer = <<>>
    /\ rest = <<>>
    /\ in_final = FALSE
    /\ audio_queue = <<>>
    /\ writer_task = None
    /\ reader_task = None
    /\ out = [c \in Clients |-> <<>>]
    /\ resp = <<>>
    /\ error = None
    /\ hist = [ frames_read |-> <<>>, timed_out |-> <<>>, callbacks |-> 0,
                units |-> <<>>, sessions |-> <<>>, faults |-> 0,
                read_from |-> {}, errors_read |-> 0, calls |-> <<>>,
                queued |-> <<>>, callback |-> None ]

EngineUnchanged ==
    UNCHANGED << self, pc, target_server, wire, inflight, text_stream,
                 text_buffer, rest, in_final, audio_queue, writer_task,
                 reader_task, resp, error, hist >>

\* the message a handler is handling, and the synthesis it is answering
Handling(c) == wire[c][conn[c].pos + 1]
Request(c) == << c, conn[c].pos + 1, conn[c].todo >>

\* handle_event returns True: the connection reads its next message
ReturnsTrue(h) == [h EXCEPT !.at = "idle", !.pos = @ + 1, !.todo = 0]
\* handle_event returns False: the server closes the connection
ReturnsFalse(h) == [h EXCEPT !.at = "closed", !.todo = 0]

\* handler.py 43-58, 1.6/handler.py 46-99: one message is read and handled,
\* up to the first synthesis it asks for
HandleEvent(c) ==
    /\ pc = "engine"
    /\ conn[c].at = "idle"
    /\ conn[c].pos < Len(wire[c])
    /\ LET h == conn[c]
           event == Handling(c)
           synthesis == [h EXCEPT !.at = "synthesize"]
       IN IF self.version = "plain"
          THEN /\ conn' = [conn EXCEPT ![c] =
                             IF event.type # "synthesize" THEN ReturnsTrue(h)
                             ELSE [synthesis EXCEPT !.todo = 1,
                                                    !.voice = event.voice]]
               /\ out' = out
          ELSE CASE event.type = "synthesize" ->
                      /\ conn' = [conn EXCEPT ![c] =
                                    IF h.is_streaming THEN ReturnsTrue(h)
                                    ELSE [synthesis EXCEPT !.todo = 1,
                                                           !.voice = event.voice]]
                      /\ out' = out
                 [] event.type # "synthesize" /\ ~self.streaming ->
                      /\ conn' = [conn EXCEPT ![c] = ReturnsTrue(h)]
                      /\ out' = out
                 [] event.type = "synthesize-start" /\ self.streaming ->
                      /\ conn' = [conn EXCEPT ![c] =
                                    ReturnsTrue([h EXCEPT !.is_streaming = TRUE,
                                                          !.started = TRUE,
                                                          !.voice = event.voice])]
                      /\ out' = out
                 [] event.type # "synthesize" /\ event.type # "synthesize-start"
                       /\ self.streaming /\ ~h.started ->
                      \* self._synthesize is None: the assertion of line 73 or 83 fails
                      /\ conn' = [conn EXCEPT ![c] = ReturnsFalse(h)]
                      /\ out' = [out EXCEPT ![c] =
                                   Append(@, Reply("error", Request(c), None))]
                 [] event.type = "synthesize-chunk" /\ self.streaming
                       /\ h.started ->
                      /\ conn' = [conn EXCEPT ![c] =
                                    IF event.sentences = 0 THEN ReturnsTrue(h)
                                    ELSE [synthesis EXCEPT
                                            !.todo = event.sentences]]
                      /\ out' = out
                 [] event.type = "synthesize-stop" /\ self.streaming
                       /\ h.started ->
                      IF event.sentences = 0
                      THEN /\ conn' = [conn EXCEPT ![c] = ReturnsTrue(h)]
                           /\ out' = [out EXCEPT ![c] =
                                        Append(@, Reply("synthesize-stopped",
                                                        Request(c), None))]
                      ELSE /\ conn' = [conn EXCEPT ![c] =
                                         [synthesis EXCEPT !.todo = 1]]
                           /\ out' = out
    /\ engine' = engine
    /\ EngineUnchanged

\* handler.py 82, 1.6/handler.py 113: async with processes_lock
AcquireLock(c) ==
    /\ pc = "engine"
    /\ conn[c].at = "synthesize"
    /\ engine.lock = None
    /\ engine' = [engine EXCEPT !.lock = c]
    /\ conn' = [conn EXCEPT ![c].at = "locked"]
    /\ out' = out
    /\ EngineUnchanged

\* who holds the lock once the text is written to stdin: the plain handler
\* leaves the with block (handler.py 82-109), the 1.6 handler stays in it to
\* the end of the synthesis (1.6/handler.py 113-194)
LockAfterWrite_released(c) == None
LockAfterWrite(c) == IF self.version = "plain" THEN None ELSE c

\* process.py get_process, with args.max_piper_procs = 1: the process of the
\* voice, started anew when there is none or it has ended, after the process
\* of the other voice was stopped to make room; procs is the list of the
\* processes ever started, processes[v] the place of the one kept for voice v
Stopped(procs, processes, voice) ==
    [p \in 1..Len(procs) |->
       IF /\ \E v \in Voices \ {voice} : processes[v] = p
          /\ procs[p].state = "running"
       THEN [procs[p] EXCEPT !.state = "terminated", !.stdin = <<>>,
                             !.done = TRUE]
       ELSE procs[p]]

NeedsStart(e, voice) ==
    \/ e.processes[voice] = 0
    \/ e.procs[e.processes[voice]].state # "running"

get_process(e, voice) ==
    IF NeedsStart(e, voice)
    THEN [e EXCEPT
            !.procs = Append(Stopped(e.procs, e.processes, voice),
                             NewProcess(voice)),
            !.processes = [v \in Voices |->
                             IF v = voice THEN Len(e.procs) + 1 ELSE 0]]
    ELSE e

\* handler.py 90-109, 1.6/handler.py 119-143: the process is fetched and the
\* text is written to its stdin
WriteText(c) ==
    /\ pc = "engine"
    /\ conn[c].at = "locked"
    /\ NeedsStart(engine, conn[c].voice) => Len(engine.procs) < EngineMaxProcs
    /\ LET e == get_process(engine, conn[c].voice)
           p == e.processes[conn[c].voice]
       IN /\ engine' = [e EXCEPT
                          !.lock = LockAfterWrite(c),
                          !.procs[p].stdin = Append(@, Request(c)),
                          !.procs[p].done =
                              IF self.version = "plain" THEN @ ELSE FALSE]
          /\ conn' = [conn EXCEPT ![c].at = "start", ![c].piper_proc = p]
    /\ out' = out
    /\ EngineUnchanged

\* get_process or the write raises (no such voice, a broken pipe): the lock
\* is left, Error is written; the plain handler returns True (handler.py
\* 55-58), the 1.6 handler False (1.6/handler.py 94-99)
WriteTextRaises(c) ==
    /\ pc = "engine"
    /\ conn[c].at = "locked"
    /\ engine' = [engine EXCEPT !.lock = None]
    /\ conn' = [conn EXCEPT ![c] = IF self.version = "plain"
                                   THEN ReturnsTrue(@) ELSE ReturnsFalse(@)]
    /\ out' = [out EXCEPT ![c] = Append(@, Reply("error", Request(c), None))]
    /\ EngineUnchanged

\* handler.py 118-124, 1.6/handler.py 145
WriteAudioStart(c) ==
    /\ pc = "engine"
    /\ conn[c].at = "start"
    /\ conn' = [conn EXCEPT ![c].at = IF self.version = "plain"
                                      THEN "first_read" ELSE "reading"]
    /\ out' = [out EXCEPT ![c] =
                 Append(@, Reply("audio-start", Request(c), None))]
    /\ engine' = engine
    /\ EngineUnchanged

Reads(c) == conn[c].at \in {"first_read", "reading"}

\* the lock after a synthesis of the 1.6 handler ends (the with block is
\* left); the plain handler left it before
Unlocked(c) ==
    IF self.version = "plain" THEN engine
    ELSE [engine EXCEPT !.lock = None]

\* as Continues, but a stop is left without its SynthesizeStopped
Continues_without_stopped(c) ==
    IF conn[c].todo > 1
    THEN [h |-> [conn[c] EXCEPT !.at = "synthesize", !.todo = @ - 1],
          events |-> <<>>]
    ELSE [h |-> ReturnsTrue(conn[c]), events |-> <<>>]

\* _handle_synthesize returned True to handle_event of the 1.6 handler
\* (1.6/handler.py 59, 75-90): the next sentence of the chunk is synthesized,
\* or the message is done, and a stop is answered by SynthesizeStopped
Continues(c) ==
    IF conn[c].todo > 1
    THEN [h |-> [conn[c] EXCEPT !.at = "synthesize", !.todo = @ - 1],
          events |-> <<>>]
    ELSE [h |-> ReturnsTrue(conn[c]),
          events |-> IF Handling(c).type = "synthesize-stop"
                     THEN << Reply("synthesize-stopped", Request(c), None) >>
                     ELSE <<>>]

\* the reading ends without an exception: AudioStop is written (handler.py
\* 193-194, 1.6/handler.py 193); the plain handler returns False when no
\* audio was sent (handler.py 142, 147), True otherwise (199)
ReadingEnds(c) ==
    LET stop == << Reply("audio-stop", Request(c), None) >>
    IN /\ engine' = Unlocked(c)
       /\ IF self.version = "plain"
          THEN /\ conn' = [conn EXCEPT ![c] =
                             IF @.at = "first_read" THEN ReturnsFalse(@)
                             ELSE ReturnsTrue(@)]
               /\ out' = [out EXCEPT ![c] = @ \o stop]
          ELSE /\ conn' = [conn EXCEPT ![c] = Continues(c).h]
               /\ out' = [out EXCEPT ![c] = @ \o stop \o Continues(c).events]

\* handler.py 135-157, 166-186, 1.6/handler.py 165-185: a chunk is read from
\* the stdout of the process and written to the client
ReadChunk(c) ==
    /\ pc = "engine"
    /\ Reads(c)
    /\ LET p == conn[c].piper_proc
       IN /\ engine.procs[p].stdout # <<>>
          /\ engine' = [engine EXCEPT !.procs[p].stdout = Tail(@)]
          /\ out' = [out EXCEPT ![c] =
                       Append(@, Reply("audio-chunk", Request(c),
                                       Head(engine.procs[p].stdout)))]
    /\ conn' = [conn EXCEPT ![c].at = "reading"]
    /\ EngineUnchanged

\* handler.py 139-142, 170-172: no audio within the timeout;
\* 1.6/handler.py 156-162, 169-173: synthesis_done is set and nothing is
\* left to read
ReadTimeout(c) ==
    /\ pc = "engine"
    /\ Reads(c)
    /\ LET proc == engine.procs[conn[c].piper_proc]
       IN /\ proc.stdout = <<>>
          /\ proc.state = "running"
          /\ self.version = "1.6" => proc.done
    /\ ReadingEnds(c)
    /\ EngineUnchanged

\* handler.py 144-147, 174-176, 1.6/handler.py 177-179: the stdout of the
\* process is at its end
ReadEOF(c) ==
    /\ pc = "engine"
    /\ Reads(c)
    /\ LET proc == engine.procs[conn[c].piper_proc]
       IN /\ proc.stdout = <<>>
          /\ proc.state # "running"
    /\ ReadingEnds(c)
    /\ EngineUnchanged

\* what is written when the reading raises: the plain handler writes Error
\* and then, in its finally clause, AudioStop (handler.py 188-194); the 1.6
\* handler writes AudioStop in its finally clause and Error in handle_event
\* (1.6/handler.py 187-193, 94-99)
Raised_without_finally(request) == << Reply("error", request, None) >>
Raised(request) ==
    IF self.version = "plain"
    THEN << Reply("error", request, None), Reply("audio-stop", request, None) >>
    ELSE << Reply("audio-stop", request, None), Reply("error", request, None) >>

\* an exception while streaming (a read or a write raises); both handlers
\* return False
ReadRaises(c) ==
    /\ pc = "engine"
    /\ Reads(c)
    /\ engine' = Unlocked(c)
    /\ conn' = [conn EXCEPT ![c] = ReturnsFalse(@)]
    /\ out' = [out EXCEPT ![c] = @ \o Raised(Request(c))]
    /\ EngineUnchanged

\* Piper writes a chunk of the audio of the text it is synthesizing
PiperChunk(p) ==
    /\ pc = "engine"
    /\ p <= Len(engine.procs)
    /\ LET proc == engine.procs[p]
       IN /\ proc.state = "running"
          /\ proc.stdin # <<>>
          /\ proc.made < EngineMaxChunks
          /\ engine' = [engine EXCEPT
                          !.procs[p].stdout = Append(@, Head(proc.stdin)),
                          !.procs[p].made = @ + 1]
    /\ UNCHANGED << conn, out >>
    /\ EngineUnchanged

\* Piper is done with a text and reports the real-time factor on stderr;
\* _log_stderr sets synthesis_done (process.py)
PiperDone(p) ==
    /\ pc = "engine"
    /\ p <= Len(engine.procs)
    /\ LET proc == engine.procs[p]
       IN /\ proc.state = "running"
          /\ proc.stdin # <<>>
          /\ engine' = [engine EXCEPT !.procs[p].stdin = Tail(@),
                                      !.procs[p].made = 0,
                                      !.procs[p].done = TRUE]
    /\ UNCHANGED << conn, out >>
    /\ EngineUnchanged

\* a Piper process ends by itself: stdout and stderr reach their end, and
\* _log_stderr sets synthesis_done
PiperExits(p) ==
    /\ pc = "engine"
    /\ p <= Len(engine.procs)
    /\ engine.procs[p].state = "running"
    /\ engine' = [engine EXCEPT !.procs[p].state = "exited",
                                !.procs[p].stdin = <<>>,
                                !.procs[p].done = TRUE]
    /\ UNCHANGED << conn, out >>
    /\ EngineUnchanged

EngineNext ==
    \/ \E c \in Clients : HandleEvent(c)
    \/ \E c \in Clients : AcquireLock(c)
    \/ \E c \in Clients : WriteText(c)
    \/ \E c \in Clients : WriteTextRaises(c)
    \/ \E c \in Clients : WriteAudioStart(c)
    \/ \E c \in Clients : ReadChunk(c)
    \/ \E c \in Clients : ReadTimeout(c)
    \/ \E c \in Clients : ReadEOF(c)
    \/ \E c \in Clients : ReadRaises(c)
    \/ \E p \in 1..EngineMaxProcs : PiperChunk(p)
    \/ \E p \in 1..EngineMaxProcs : PiperDone(p)
    \/ \E p \in 1..EngineMaxProcs : PiperExits(p)

EngineSpec == EngineInit /\ [][EngineNext]_vars

-----------------------------------------------------------------------------
(* The voice list of StreamingTtsProxyEntity (tts.py) on its own: the load  *)
(* scheduled when the entity is added and the loads the notifications of a  *)
(* primary connect start, each a task of its own.  Here self holds the      *)
(* entity's fields and conn[t] where task t stands.                         *)

\* number of notifications of a primary connect
VoiceMaxNotifications == 2

\* task 0 is the load async_added_to_hass schedules, the others are the
\* notifications
LoadTasks == 0..VoiceMaxNotifications

\* what get_voices can return: the names of the server's voices, or none
VoiceNames == { {}, {"v1"}, {"v1", "v2"} }
\* what get_voices can raise and async_load_voices catches (line 124)
LoadErrors == {"CannotConnect", "NoVoicesFound"}

VoiceInit ==
    /\ self = [_voices_loaded |-> FALSE, _voices |-> {}]
    /\ pc = "voices"
    /\ target_server = NoServer
    /\ conn = [t \in LoadTasks |-> "new"]
    /\ wire = [t \in Targets |-> <<>>]
    /\ engine = [link |-> "up", pos |-> 0, sent |-> 0, frames |-> 0,
                 mode |-> "unknown"]
    /\ inflight = <<>>
    /\ text_stream = [fed |-> <<>>, done |-> FALSE]
    /\ text_buffer = <<>>
    /\ rest = <<>>
    /\ in_final = FALSE
    /\ audio_queue = <<>>
    /\ writer_task = None
    /\ reader_task = None
    /\ out = <<>>
    /\ resp = <<>>
    /\ error = None
    /\ hist = [ loaded_once |-> FALSE, stored |-> {}, late_queries |-> 0,
                raised |-> {} ]

VoiceUnchanged ==
    UNCHANGED << pc, target_server, wire, engine, inflight, text_stream,
                 text_buffer, rest, in_final, audio_queue, writer_task,
                 reader_task, out, resp, error >>

\* lines 104-110: async_load_voices returns when the list is loaded, and
\* calls get_voices otherwise
LoadStarts(t) ==
    /\ conn' = [conn EXCEPT ![t] = IF self._voices_loaded THEN "done"
                                   ELSE "querying"]
    /\ hist' = [hist EXCEPT !.late_queries =
                  IF hist.loaded_once /\ ~self._voices_loaded /\ t # 0
                  THEN @ + 1 ELSE @]
    /\ self' = self

\* lines 85-93: the entity is added; the callback is set and the first load
\* is scheduled
AddedToHass ==
    /\ pc = "voices"
    /\ conn[0] = "new"
    /\ LoadStarts(0)
    /\ VoiceUnchanged

\* lines 95-100: a notification of a primary connect (the callback is set)
TriggerVoiceReload(t) ==
    /\ pc = "voices"
    /\ t # 0
    /\ conn[0] # "new"
    /\ conn[t] = "new"
    /\ LoadStarts(t)
    /\ VoiceUnchanged

\* lines 110-122: get_voices returns; the list is replaced and marked loaded
GetVoicesReturns(t) ==
    /\ pc = "voices"
    /\ conn[t] = "querying"
    /\ \E voice_names \in VoiceNames :
         /\ self' = [_voices_loaded |-> TRUE, _voices |-> voice_names]
         /\ hist' = [hist EXCEPT !.loaded_once = TRUE, !.stored = voice_names]
    /\ conn' = [conn EXCEPT ![t] = "done"]
    /\ VoiceUnchanged

\* lines 124-129: get_voices raises CannotConnect or NoVoicesFound; the list
\* is cleared and marked not loaded
GetVoicesRaises(t) ==
    /\ pc = "voices"
    /\ conn[t] = "querying"
    /\ \E e \in LoadErrors : hist' = [hist EXCEPT !.raised = @ \cup {e}]
    /\ self' = [_voices_loaded |-> FALSE, _voices |-> {}]
    /\ conn' = [conn EXCEPT ![t] = "done"]
    /\ VoiceUnchanged

\* get_voices raises something else: the task ends with it, the fields stay
GetVoicesFails(t) ==
    /\ pc = "voices"
    /\ conn[t] = "querying"
    /\ conn' = [conn EXCEPT ![t] = "failed"]
    /\ UNCHANGED << self, hist >>
    /\ VoiceUnchanged

VoiceNext ==
    \/ AddedToHass
    \/ \E t \in LoadTasks : TriggerVoiceReload(t)
    \/ \E t \in LoadTasks : GetVoicesReturns(t)
    \/ \E t \in LoadTasks : GetVoicesRaises(t)
    \/ \E t \in LoadTasks : GetVoicesFails(t)

VoiceSpec == VoiceInit /\ [][VoiceNext]_vars

-----------------------------------------------------------------------------
(* create_wav_header on its own: the header as the fields struct.pack lays
   out, called with chosen arguments. *)

\* the calls of one behaviour
WavMaxCalls == 2

\* struct.pack "L": an unsigned 32-bit field, as its high and low 16-bit
\* halves
L(v) == << v \div 65536, v % 65536 >>

\* 0xFFFFFFFF as an "L" field
MAX32 == << 65535, 65535 >>

\* the fields of "<4sL4s4sLHHLLHH4sL" that vary (lines 34-48, tts.py 44-48)
Pack(chunk_size, channels, sample_rate, bits_per_sample, data_size) ==
    [ chunk_size |-> chunk_size,
      channels |-> channels,
      sample_rate |-> L(sample_rate),
      byte_rate |-> L((sample_rate * channels * bits_per_sample) \div 8),
      block_align |-> (channels * bits_per_sample) \div 8,
      bits_per_sample |-> bits_per_sample,
      data_size |-> data_size ]

\* mutant: the sizes are always computed from data_size
create_wav_header_computed(sample_rate, bits_per_sample, channels, data_size) ==
    Pack(L(36 + data_size), channels, sample_rate, bits_per_sample, L(data_size))

\* stream_processor.py 25-49; data_size is 0 when the caller gives none
create_wav_header(sample_rate, bits_per_sample, channels, data_size) ==
    LET chunk_size == IF data_size > 0 THEN L(36 + data_size) ELSE MAX32
        final_data_size == IF data_size > 0 THEN L(data_size) ELSE MAX32
    IN Pack(chunk_size, channels, sample_rate, bits_per_sample, final_data_size)

\* tts.py 32-49
tts_create_wav_header(sample_rate, bits_per_sample, channels, data_size) ==
    LET is_streaming == data_size = 0
        chunk_size == IF is_streaming THEN MAX32 ELSE L(36 + data_size)
        size == IF is_streaming THEN MAX32 ELSE L(data_size)
    IN Pack(chunk_size, channels, sample_rate, bits_per_sample, size)

\* the arguments of the calls: the rates of the engines and of the entity
\* (tts.py 180, 190), other common formats, no data (streaming) and the
\* payload sizes of a complete file
SampleRates == {8000, 16000, 22050, 48000}
BitDepths == {8, 16}
Channels == {1, 2}
DataSizes == {0, 2, 70000}

WavInit ==
    /\ self = StreamProcessor(FALSE, FALSE, 22050, None, 0, None, 0, FALSE)
    /\ pc = "wav_header"
    /\ target_server = NoServer
    /\ conn = [t \in Targets |-> "idle"]
    /\ wire = [t \in Targets |-> <<>>]
    /\ engine = [link |-> "up", pos |-> 0, sent |-> 0, frames |-> 0,
                 mode |-> "unknown"]
    /\ inflight = <<>>
    /\ text_stream = [fed |-> <<>>, done |-> FALSE]
    /\ text_buffer = <<>>
    /\ rest = <<>>
    /\ in_final = FALSE
    /\ audio_queue = <<>>
    /\ writer_task = None
    /\ reader_task = None
    /\ out = <<>>
    /\ resp = <<>>
    /\ error = None
    /\ hist = [ frames_read |-> <<>>, timed_out |-> <<>>, callbacks |-> 0,
                units |-> <<>>, sessions |-> <<>>, faults |-> 0,
                read_from |-> {}, errors_read |-> 0, calls |-> <<>>,
                queued |-> <<>>, callback |-> None ]

\* a call with its result
WavCall(module, sample_rate, bits_per_sample, channels, data_size, header) ==
    [ module |-> module, sample_rate |-> sample_rate,
      bits_per_sample |-> bits_per_sample, channels |-> channels,
      data_size |-> data_size, header |-> header ]

WavUnchanged ==
    UNCHANGED << self, pc, target_server, conn, wire, engine, inflight,
                 text_stream, text_buffer, rest, in_final, audio_queue,
                 writer_task, reader_task, resp, error, hist >>

\* stream_processor.py 159, 212: create_wav_header of stream_processor.py is
\* called
WavProcessorCall ==
    /\ pc = "wav_header"
    /\ Len(out) < WavMaxCalls
    /\ \E sample_rate \in SampleRates, bits_per_sample \in BitDepths,
          channels \in Channels, data_size \in DataSizes :
         out' = Append(out, WavCall("stream_processor", sample_rate,
                    bits_per_sample, channels, data_size,
                    create_wav_header(sample_rate, bits_per_sample, channels,
                                      data_size)))
    /\ WavUnchanged

\* tts.py 180, 190: create_wav_header of tts.py is called
WavEntityCall ==
    /\ pc = "wav_header"
    /\ Len(out) < WavMaxCalls
    /\ \E sample_rate \in SampleRates, bits_per_sample \in BitDepths,
          channels \in Channels, data_size \in DataSizes :
         out' = Append(out, WavCall("tts", sample_rate, bits_per_sample,
                    channels, data_size,
                    tts_create_wav_header(sample_rate, bits_per_sample,
                                          channels, data_size)))
    /\ WavUnchanged

WavNext == WavProcessorCall \/ WavEntityCall

WavSpec == WavInit /\ [][WavNext]_vars

-----------------------------------------------------------------------------
(* async_get_tts_audio of StreamingTtsProxyEntity (tts.py 170-182) on its   *)
(* own: the chunks async_process_stream yields for the one message are      *)
(* collected in out, and resp holds the WAV returned.                       *)

\* number of audio payloads the engine sends for the message
GetAudioMaxChunks == 3

\* struct.calcsize('<4sL4s4sLHHLLHH4sL'): bytes of a container header
WAV_HEADER_BYTES == 44

\* the sizes in bytes of the audio payloads of the engine
PayloadSizes == {2, 2048, 70000}

\* len(c) of a chunk of pcm_chunks; an audio item holds its size here
ByteLen(chunk) == IF chunk.kind = "header" THEN WAV_HEADER_BYTES ELSE chunk.audio

RECURSIVE SumLen(_)
SumLen(chunks) ==
    IF chunks = <<>> THEN 0 ELSE ByteLen(Head(chunks)) + SumLen(Tail(chunks))

GetAudioInit ==
    /\ self = StreamProcessor(FALSE, FALSE, 22050, None, 0, None, 0, FALSE)
    /\ pc = "get_tts_audio"
    /\ target_server = NoServer
    /\ conn = [t \in Targets |-> "idle"]
    /\ wire = [t \in Targets |-> <<>>]
    /\ engine = [link |-> "up", pos |-> 0, sent |-> 0, frames |-> 0,
                 mode |-> "unknown"]
    /\ inflight = <<>>
    /\ text_stream = [fed |-> <<>>, done |-> FALSE]
    /\ text_buffer = <<>>
    /\ rest = <<>>
    /\ in_final = FALSE
    /\ audio_queue = <<>>
    /\ writer_task = None
    /\ reader_task = None
    /\ out = <<>>
    /\ resp = <<>>
    /\ error = None
    /\ hist = [ frames_read |-> <<>>, timed_out |-> <<>>, callbacks |-> 0,
                units |-> <<>>, sessions |-> <<>>, faults |-> 0,
                read_from |-> {}, errors_read |-> 0, calls |-> <<>>,
                queued |-> <<>>, callback |-> None ]

GetAudioUnchanged ==
    UNCHANGED << self, target_server, conn, wire, engine, inflight,
                 text_buffer, rest, in_final, audio_queue, writer_task,
                 reader_task, hist >>

\* tts.py 177-179 with stream_processor.py 159, 212: the message is handed
\* to async_process_stream, a server is connected, and the first chunk of
\* the session is the header made for the server's sample rate
GetAudioConnected ==
    /\ pc = "get_tts_audio"
    /\ \E sample_rate \in SampleRates : out' = << Header(sample_rate) >>
    /\ pc' = "collecting"
    /\ text_stream' = [fed |-> << <<"a", ".">> >>, done |-> TRUE]
    /\ UNCHANGED << resp, error >>
    /\ GetAudioUnchanged

\* tts.py 179: a chunk of audio the session yields is collected
GetAudioChunk ==
    /\ pc = "collecting"
    /\ Len(out) <= GetAudioMaxChunks
    /\ \E size \in PayloadSizes : out' = Append(out, Audio(size))
    /\ UNCHANGED << pc, text_stream, resp, error >>
    /\ GetAudioUnchanged

\* tts.py 180-182: the generator is exhausted; the header is made for the
\* bytes collected and put before them
GetAudioReturns ==
    /\ pc = "collecting"
    /\ resp' = [ header |-> tts_create_wav_header(ENTITY_HEADER_RATE, 16, 1,
                                                  SumLen(out)),
                 data |-> out ]
    /\ pc' = "returned"
    /\ UNCHANGED << out, text_stream, error >>
    /\ GetAudioUnchanged

\* tts.py 179: async_process_stream raises (no server could be connected,
\* the engine reported an error); the method raises and returns nothing
GetAudioRaises ==
    /\ pc \in {"get_tts_audio", "collecting"}
    /\ pc' = "raised"
    /\ error' = "Exception"
    /\ UNCHANGED << out, text_stream, resp >>
    /\ GetAudioUnchanged

GetAudioNext ==
    \/ GetAudioConnected
    \/ GetAudioChunk
    \/ GetAudioReturns
    \/ GetAudioRaises

GetAudioSpec == GetAudioInit /\ [][GetAudioNext]_vars

\* The steps of the proxy and of a caller that goes on consuming, other than
\* the read of sentence mode: what the event loop runs when it can.  The text
\* producer, the engine, the loss of the connection and a caller that stops
\* are not among them.
ProxyStep ==
    \/ WavGeneratorStart \/ ProbePrimaryStart \/ ProbePrimaryDone
    \/ ProbeFallbackDone
    \/ SentenceResume \/ SentenceReadFails \/ SentencePull
    \/ NativeResume \/ WriterStart \/ ReaderRead \/ ReaderFails \/ NativeGet
    \/ NativePull
    \/ FinalizeProcessor \/ FinalizeSession

\* line 288: the read of sentence mode returns an event or times out
SentenceReading == SentenceRead \/ SentenceTimeout

\* the condition under which SentenceReading can take a step
CanRead == pc = "sentence_read" /\ LinkUp

\* The event loop runs every step of the proxy that stays possible.  The
\* last conjunct is weak fairness of SentenceReading with its enabling
\* condition written out.
LiveSpec ==
    /\ Spec
    /\ WF_vars(ProxyStep)
    /\ ([]<>~CanRead \/ []<><<SentenceReading>>_vars)

\* The event loop runs what is scheduled on it: the tasks in which the
\* finalizer closes an abandoned generator are eventually run.
FairSpec ==
    Spec /\ WF_vars(FinalizeProcessor) /\ WF_vars(FinalizeSession)

-----------------------------------------------------------------------------
(* Properties. *)

\* the target whose connection attempt succeeded, if any
Established(t) == conn[t] \in {"open", "closed"}

\* the audio payloads among the items of a sequence, in order
AudioOf(items) ==
    LET audio == SelectSeq(items, LAMBDA item : item.kind = "audio")
    IN [i \in 1..Len(audio) |-> audio[i].audio]

IsPrefix(a, b) == Len(a) <= Len(b) /\ SubSeq(b, 1, Len(a)) = a

\* the texts of the Synthesize messages written to target t, in order
SynthesizeTexts(t) ==
    LET msgs == SelectSeq(wire[t], LAMBDA m : m.type = "synthesize")
    IN [i \in 1..Len(msgs) |-> msgs[i].text]

\* The sentences a sequence of fragments holds, segmented without any I/O:
\* the speakable units of lines 218-230 for each fragment in turn (from
\* fragment i, with the buffer so far), then the final text of lines 232-235.
RECURSIVE UnitsFrom(_, _)
UnitsFrom(current_text, acc) ==
    LET r == NextUnit(current_text, <<>>)
    IN IF r.text = <<>> THEN [texts |-> acc, buffer |-> r.buffer]
       ELSE UnitsFrom(r.rest, Append(acc, r.text))

RECURSIVE UnitsOfStream(_, _, _, _)
UnitsOfStream(frags, i, buffer, acc) ==
    IF i > Len(frags)
    THEN IF SpeakableText(Strip(buffer)) = <<>> THEN acc
         ELSE Append(acc, SpeakableText(Strip(buffer)))
    ELSE LET u == UnitsFrom(buffer \o frags[i], acc)
         IN UnitsOfStream(frags, i + 1, u.buffer, u.texts)

\* C1: when the primary probe has failed and the fallback is connected, no
\* message is written to the primary, every audio frame read was read from
\* the fallback connection and every audio frame yielded is one of them, and
\* the header yielded carries the fallback's configured sample rate.
C1_FallbackOnly ==
    (conn["primary"] = "failed" /\ Established("fallback")) =>
        /\ wire["primary"] = <<>>
        /\ hist.read_from \subseteq {"fallback"}
        /\ \A i \in 1..Len(out) :
             /\ out[i].kind = "header" => out[i].rate = self.fallback_sample_rate
             /\ out[i].kind = "audio" =>
                  \E j \in 1..Len(hist.frames_read) : hist.frames_read[j] = out[i].audio
        /\ \E i \in 1..Len(out) : out[i].kind = "header"

\* C1 witness: after a failed primary probe, audio read from the fallback has
\* been yielded behind a header whose rate differs from the primary's.
C1_Witness ==
    /\ conn["primary"] = "failed"
    /\ Established("fallback")
    /\ self.sample_rate # self.fallback_sample_rate
    /\ hist.read_from = {"fallback"}
    /\ \E i \in 1..Len(out) : out[i].kind = "audio"

\* C2: when both the primary probe and the fallback probe have failed, the
\* request has failed with the "both servers unavailable" error and nothing
\* at all has been yielded: no header, no audio.
C2_BothUnavailable ==
    (conn["primary"] = "failed" /\ conn["fallback"] = "failed") =>
        /\ pc = "failed"
        /\ error = "Both primary and fallback TTS servers are unavailable."
        /\ out = <<>>

\* C2 witness: both probes have failed.
C2_Witness ==
    /\ conn["primary"] = "failed"
    /\ conn["fallback"] = "failed"
    /\ pc = "failed"

\* C3: when the primary probe has failed and the fallback host or the
\* fallback port is missing, the request has failed with the "no fallback
\* configured" error, no fallback connection was attempted, and nothing has
\* been yielded.
C3_NoFallbackConfigured ==
    (conn["primary"] = "failed"
        /\ (self.fallback_tts_host = None \/ self.fallback_tts_port = 0)) =>
        /\ pc = "failed"
        /\ error = "Primary TTS server is unavailable and no fallback is configured."
        /\ conn["fallback"] = "idle"
        /\ wire["fallback"] = <<>>
        /\ out = <<>>

\* C3 witness: the primary probe has failed on a processor whose fallback
\* host is set and whose fallback port is missing.
C3_Witness ==
    /\ conn["primary"] = "failed"
    /\ self.fallback_tts_host # None
    /\ self.fallback_tts_port = 0
    /\ pc = "failed"

\* C4: the fallback attempt is started only after the primary attempt has
\* ended in failure: it is never started before the primary attempt, never
\* while the primary attempt is in flight, and never when the primary is
\* connected.
C4_PrimaryFirst ==
    /\ conn["fallback"] # "idle" => conn["primary"] = "failed"
    /\ ~(conn["primary"] = "connecting" /\ conn["fallback"] = "connecting")
    /\ Established("primary") => conn["fallback"] = "idle"

\* C4 witness: the fallback attempt is in flight.
C4_Witness == conn["fallback"] = "connecting"

\* C5: once a request that obtained a connection has ended, normally or by
\* an exception during streaming, the connection's writer is closed and
\* neither task of the native session is still running; no connection is
\* open or being opened.
C5_Cleanup ==
    Ended(pc) =>
        /\ \A t \in Targets : conn[t] \notin {"open", "connecting"}
        /\ target_server # NoServer => conn[target_server.writer] = "closed"
        /\ writer_task \in {None, "done", "cancelled"}
        /\ reader_task \in {None, "done", "cancelled"}

\* C5 witness: a native session has ended by the exception of its writer
\* while the reader was still running; the reader is cancelled and the
\* connection closed.
C5_Witness ==
    /\ pc = "failed"
    /\ hist.sessions = <<"native">>
    /\ writer_task = "done"
    /\ reader_task = "cancelled"
    /\ conn[target_server.writer] = "closed"

\* C6: a request that reached dispatch has yielded the header as its first
\* item, built with the sample rate of the target actually connected, and
\* only audio after it; the header is there before any message is written
\* and before any frame is read; a request that did not reach dispatch has
\* yielded nothing.
C6_HeaderOnceFirst ==
    /\ (\E t \in Targets : Established(t)) =>
          /\ Len(out) >= 1
          /\ out[1] = Header(IF Established("primary") THEN self.sample_rate
                                                     ELSE self.fallback_sample_rate)
          /\ \A i \in 2..Len(out) : out[i].kind = "audio"
    /\ (\A t \in Targets : ~Established(t)) =>
          /\ out = <<>>
          /\ \A t \in Targets : wire[t] = <<>>
    /\ pc \in {"native_header", "sentence_header"} =>
          /\ \A t \in Targets : wire[t] = <<>>
          /\ hist.frames_read = <<>>

\* C6 witness: a sentence-based session on an empty text stream has ended
\* with the header as its only item.
C6_Witness ==
    /\ pc = "done"
    /\ hist.sessions = <<"sentence">>
    /\ text_stream.fed = <<>>
    /\ Len(out) = 1

\* C7: the stream handed to the caller by async_stream_tts_audio begins with
\* one header and holds nothing but audio payloads after it.
C7_SingleHeader ==
    /\ resp # <<>> => resp[1].kind = "header"
    /\ \A i \in 2..Len(resp) : resp[i].kind = "audio"

\* C8: once a target is connected exactly one session has been started, the
\* native one if and only if the connected target's own capability flag is
\* true; the tasks of the native session and its messages exist only in a
\* native session, Synthesize messages only in a sentence-based one.
C8_ModeSelection ==
    /\ Len(hist.sessions) <= 1
    /\ \A t \in Targets : Established(t) =>
         LET flag == IF t = "primary" THEN self.primary_supports_streaming
                                      ELSE self.fallback_supports_streaming
         IN /\ hist.sessions = << IF flag THEN "native" ELSE "sentence" >>
            /\ \A i \in 1..Len(wire[t]) : (wire[t][i].type = "synthesize") <=> ~flag
            /\ writer_task # None => flag
            /\ reader_task # None => flag

\* C8 witness: the fallback is connected, the primary's flag is true, the
\* fallback's is false, and a Synthesize message has been written.
C8_Witness ==
    /\ Established("fallback")
    /\ self.primary_supports_streaming
    /\ ~self.fallback_supports_streaming
    /\ wire["fallback"] # <<>>

\* C9: the audio yielded is, in order, a prefix of the AudioChunk payloads
\* read from the connection; it is all of them when the request has ended
\* normally, and at every moment of a sentence-based session once the frame
\* read is yielded; the frames of a unit are yielded before those of any
\* later unit.
C9_FramesInOrder ==
    /\ IsPrefix(AudioOf(out), hist.frames_read)
    /\ pc = "done" => AudioOf(out) = hist.frames_read
    /\ hist.sessions = <<"sentence">> => AudioOf(out) = hist.frames_read
    /\ \A i, j \in 1..Len(AudioOf(out)) :
         i < j => AudioOf(out)[i][1] <= AudioOf(out)[j][1]

\* C9 witness: a sentence-based session has ended normally after yielding a
\* frame of the first unit and then a frame of the second.
C9_Witness ==
    /\ pc = "done"
    /\ hist.sessions = <<"sentence">>
    /\ Len(AudioOf(out)) = 2
    /\ AudioOf(out)[1][1] = 1
    /\ AudioOf(out)[2][1] = 2

C11_ErrorSurfaced ==
    (hist.errors_read > 0 /\ Ended(pc)) => (pc = "failed" /\ error # None)

\* C12: in a native session, once the caller has stopped consuming (its task
\* cancelled, or the generator closed and left to the finalizer) the request
\* is eventually closed; when it is closed the connection is closed and
\* neither the writer task nor the reader task is running, whatever they
\* were doing; and from then on no message is written and no event is read.
C12_StoppedMeansQuiet ==
    /\ [](pc \in {"abandoned", "abandoned_session"} => <>(pc = "closed"))
    /\ []((pc = "closed" /\ hist.sessions = <<"native">>) =>
            /\ conn[target_server.writer] = "closed"
            /\ writer_task \in {None, "done", "cancelled"}
            /\ reader_task \in {None, "done", "cancelled"})
    /\ [][(pc = "closed" /\ hist.sessions = <<"native">>) =>
            /\ wire' = wire
            /\ inflight' = inflight
            /\ hist'.frames_read = hist.frames_read
            /\ hist'.errors_read = hist.errors_read
            /\ hist'.queued = hist.queued
            /\ audio_queue' = audio_queue]_vars

\* C12 witness: a native session closed by its caller while the writer was
\* iterating the text and the reader was reading: both are cancelled.
C12_Witness ==
    /\ pc = "closed"
    /\ error = None
    /\ hist.sessions = <<"native">>
    /\ writer_task = "cancelled"
    /\ reader_task = "cancelled"
    /\ wire[target_server.writer] # <<>>
    /\ conn[target_server.writer] = "closed"

\* the concatenation of a sequence of texts
RECURSIVE Flatten(_)
Flatten(texts) == IF texts = <<>> THEN <<>> ELSE Head(texts) \o Flatten(Tail(texts))

\* a text without its whitespace
NonWhitespace(s) == SelectSeq(s, LAMBDA c : c \notin Whitespace)

\* what the segmenter has emitted and what it retains
Emitted == Flatten(hist.units) \o (IF pc = "segmented" THEN <<>> ELSE text_buffer)

\* C13: at every moment the units emitted so far followed by the retained
\* buffer are, whitespace apart, the concatenation of the fragments fed, and
\* when no fragment holds the character "#" (of the placeholder "##DEC##"),
\* no unit and no retained buffer holds it.
C13_Lossless ==
    /\ NonWhitespace(Emitted) = NonWhitespace(Flatten(text_stream.fed))
    /\ (\A i \in 1..Len(Flatten(text_stream.fed)) : Flatten(text_stream.fed)[i] # "#")
          => (\A i \in 1..Len(Emitted) : Emitted[i] # "#")

\* the 1-based indices of the terminators of a text that are not the point
\* of digit '.' digit
SentenceEnds(s) ==
    {i \in 1..Len(s) :
        /\ s[i] \in Terminators
        /\ ~(s[i] = "." /\ i > 1 /\ i < Len(s)
                /\ s[i - 1] \in Digits /\ s[i + 1] \in Digits)}

\* C14: every call of _form_sentence on a buffer that holds a terminator
\* other than a decimal point returns the text up to and including the
\* first such terminator and the text after it, both trimmed.
C14_SplitAtFirstTerminator ==
    \A k \in 1..Len(hist.calls) :
        LET call == hist.calls[k]
            ends == SentenceEnds(call.buffer_text)
        IN ends # {} =>
             LET first == CHOOSE i \in ends : \A j \in ends : i <= j
             IN /\ call.sentence = Strip(SubSeq(call.buffer_text, 1, first))
                /\ call.rest = Strip(SubSeq(call.buffer_text, first + 1,
                                            Len(call.buffer_text)))

\* the number of characters of a text that are not whitespace
Weight(s) == Len(NonWhitespace(s))

\* the 1-based index in text of its n-th character that is not whitespace
IndexOfNth(text, n) ==
    CHOOSE i \in 1..Len(text) :
        /\ text[i] \notin Whitespace
        /\ Weight(SubSeq(text, 1, i)) = n

\* the places of the accumulated text after which a unit ends: the index of
\* the last character of each emitted unit
UnitEnds(text, units) ==
    { IndexOfNth(text, Weight(Flatten(SubSeq(units, 1, k)))) :
        k \in {j \in 1..Len(units) :
                  /\ Weight(Flatten(SubSeq(units, 1, j))) >= 1
                  /\ Weight(Flatten(SubSeq(units, 1, j))) <= Weight(text)} }

\* C15: no unit ends between the characters of a digit '.' digit of the
\* accumulated text: neither after the first digit nor after the point.
C15_DecimalsKeptWhole ==
    LET text == Flatten(text_stream.fed)
    IN \A i \in 1..(Len(text) - 2) :
          (text[i] \in Digits /\ text[i + 1] = "." /\ text[i + 2] \in Digits)
             => (UnitEnds(text, hist.units) \cap {i, i + 1} = {})

\* C16: every call of _form_sentence on a buffer without terminator that is
\* longer than max_chars returns, when the buffer holds no whitespace, its
\* first max_chars characters and the rest; and when its last whitespace is
\* at the 0-based index p, 0 < p < max_chars, its first p characters and the
\* rest (compared after trimming).
C16_LengthCeiling ==
    \A k \in 1..Len(hist.calls) :
        LET b == hist.calls[k].buffer_text
            ws == {i \in 1..Len(b) : b[i] \in Whitespace}
            last == CHOOSE i \in ws : \A j \in ws : j <= i
        IN ((\A i \in 1..Len(b) : b[i] \notin Terminators) /\ Len(b) > max_chars) =>
             /\ ws = {} =>
                  /\ hist.calls[k].sentence = SubSeq(b, 1, max_chars)
                  /\ hist.calls[k].rest = SubSeq(b, max_chars + 1, Len(b))
             /\ (ws # {} /\ last - 1 > 0 /\ last - 1 < max_chars) =>
                  /\ hist.calls[k].sentence = Strip(SubSeq(b, 1, last - 1))
                  /\ hist.calls[k].rest = Strip(SubSeq(b, last, Len(b)))

\* the units that _synthesize_sentence does not skip, as it writes them
SpokenUnits(units) ==
    LET spoken == SelectSeq(units, LAMBDA u : SpeakableText(u) # <<>>)
    IN [i \in 1..Len(spoken) |-> SpeakableText(spoken[i])]

C18_Terminates == text_stream.done ~> Ended(pc)

\* C19: a header made for streaming (data size 0, the value when none is
\* given) has 0xFFFFFFFF in both size fields whatever the sample rate, the
\* bit depth and the channel count, and equal calls give equal headers.
C19_StreamingSizes ==
    /\ \A i \in 1..Len(out) :
         out[i].data_size = 0 =>
            /\ out[i].header.chunk_size = MAX32
            /\ out[i].header.data_size = MAX32
    /\ \A i, j \in 1..Len(out) :
         ( /\ out[i].module = out[j].module
           /\ out[i].sample_rate = out[j].sample_rate
           /\ out[i].bits_per_sample = out[j].bits_per_sample
           /\ out[i].channels = out[j].channels
           /\ out[i].data_size = out[j].data_size )
         => out[i].header = out[j].header

\* both modules have made a streaming header, for different formats
C19_Witness ==
    /\ Len(out) = 2
    /\ out[1].module = "stream_processor" /\ out[2].module = "tts"
    /\ out[1].data_size = 0 /\ out[2].data_size = 0
    /\ out[1].sample_rate # out[2].sample_rate
    /\ out[1].header.chunk_size = MAX32 /\ out[2].header.data_size = MAX32

\* the connections of the request that are open or being opened
Live == { t \in Targets : conn[t] \in {"connecting", "open"} }

\* the targets that a message was written to or an event was read from
Talked == { t \in Targets : wire[t] # <<>> } \cup hist.read_from

\* C20: at most one connection of the request is open or being opened, the
\* primary's is not open while the fallback is probed or used, and at most
\* one target takes part in protocol traffic.
C20_OneConnection ==
    /\ Cardinality(Live) <= 1
    /\ conn["fallback"] \in {"connecting", "open", "closed"} =>
          conn["primary"] = "failed"
    /\ Cardinality(Talked) <= 1
    /\ Talked \subseteq {target_server.writer}

\* the fallback is in use after the primary attempt failed, and has been
\* written to
C20_Witness ==
    /\ conn = [primary |-> "failed", fallback |-> "open"]
    /\ wire["fallback"] # <<>>
    /\ "fallback" \in hist.read_from

\* what _write_text sends to a target for the fragments fed so far: the
\* start with the target's voice, a chunk per fragment, the stop
NativeScript(server, fed) ==
    << Message("synthesize-start", <<>>, server.voice) >>
    \o [ i \in 1..Len(fed) |-> Message("synthesize-chunk", fed[i], None) ]
    \o << Message("synthesize-stop", <<>>, None) >>

\* C21: what a native session has written is always a prefix of one
\* SynthesizeStart with the target's voice, one SynthesizeChunk per fragment
\* delivered, in the order of delivery, and one SynthesizeStop; the stop is
\* there only once the text stream has ended.
C21_WriterOrder ==
    hist.sessions = <<"native">> =>
        LET sent == wire[target_server.writer]
            script == NativeScript(target_server, text_stream.fed)
        IN /\ IsPrefix(sent, script)
           /\ Len(sent) = Len(script) => text_stream.done

\* two different fragments went out, in their order, and then the stop
C21_Witness ==
    /\ hist.sessions = <<"native">>
    /\ Len(text_stream.fed) = 2
    /\ text_stream.fed[1] # text_stream.fed[2]
    /\ wire[target_server.writer] = NativeScript(target_server, text_stream.fed)

\* the items put on the queue before the first one that is not audio
RECURSIVE BeforeTerminal(_)
BeforeTerminal(items) ==
    IF items = <<>> \/ Head(items).kind # "audio" THEN <<>>
    ELSE <<Head(items)>> \o BeforeTerminal(Tail(items))

\* the first item put on the queue that is not audio, QAudio(<<>>) if none
FirstTerminal(items) ==
    IF Len(BeforeTerminal(items)) = Len(items) THEN QAudio(<<>>)
    ELSE items[Len(BeforeTerminal(items)) + 1]

\* the payloads of a sequence of audio items
Payloads(items) == [ i \in 1..Len(items) |-> items[i].audio ]

\* C22: the audio a native session has yielded is always the beginning of
\* the frames put on the queue before its first terminal item; a session
\* that has returned had the sentinel as that item, one that has raised had
\* an exception as that item, and both have yielded every frame put before it.
C22_FirstTerminalEnds ==
    hist.sessions = <<"native">> =>
        LET before == Payloads(BeforeTerminal(hist.queued))
            first == FirstTerminal(hist.queued)
        IN /\ IsPrefix(AudioOf(out), before)
           /\ pc = "done" =>
                first.kind = "None" /\ error = None /\ AudioOf(out) = before
           /\ pc = "failed" =>
                /\ first.kind = "exception"
                /\ error = "stream failed"
                /\ AudioOf(out) = before

\* a session yielded the one frame put before an exception and then raised,
\* with the sentinel still behind the exception
C22_Witness ==
    /\ hist.sessions = <<"native">>
    /\ pc = "failed"
    /\ Len(hist.queued) = 3
    /\ hist.queued[1].kind = "audio"
    /\ hist.queued[2].kind = "exception"
    /\ hist.queued[3].kind = "None"
    /\ Len(AudioOf(out)) = 1

\* the writer task waits for the next fragment of a text stream still open
WriterWaits == writer_task = "iterating" /\ ~text_stream.done

\* C23: while the writer task waits for the next fragment, an event that has
\* arrived can be read, a frame among them being put on the queue, and a
\* frame on the queue can be yielded, with no step of the text stream in
\* between.
C23_ReadingDoesNotWait ==
    (hist.sessions = <<"native">> /\ pc = "native_get" /\ WriterWaits) =>
        /\ (reader_task = "reading" /\ LinkUp /\ inflight # <<>>)
           => ENABLED ( /\ ReaderRead
                        /\ text_stream' = text_stream
                        /\ Head(inflight).type = "audio-chunk" =>
                              Len(audio_queue') = Len(audio_queue) + 1 )
        /\ (audio_queue # <<>> /\ Head(audio_queue).kind = "audio")
           => ENABLED (NativeGet /\ text_stream' = text_stream
                                 /\ Len(out') = Len(out) + 1)

\* a frame was yielded while the writer task was waiting for more text
C23_Witness ==
    /\ hist.sessions = <<"native">>
    /\ WriterWaits
    /\ pc = "native_yield"
    /\ AudioOf(out) # <<>>

\* the read that the session waits in ends the loop of its unit: it times
\* out, or it returns the end of the connection or an AudioStop
LoopEnds ==
    /\ pc = "sentence_read"
    /\ inflight = <<>> \/ Head(inflight).type \in {"eof", "audio-stop"}

\* C24: in sentence mode the Synthesize requests written are, in order, the
\* units segmented; a step writes at most one of them, and only when no unit
\* is in synthesis or in the very step that ends the read loop of the unit
\* in synthesis; a fragment is taken from the text stream only when no unit
\* is in synthesis.
C24_Sequential ==
    /\ [](hist.sessions = <<"sentence">> =>
            IsPrefix(SynthesizeTexts(target_server.writer),
                     SpokenUnits(hist.units)))
    /\ [][hist.sessions = <<"sentence">> =>
            /\ wire' # wire =>
                  /\ pc = "sentence_text" \/ LoopEnds
                  /\ Len(wire'[target_server.writer])
                        = Len(wire[target_server.writer]) + 1
            /\ text_stream' # text_stream => pc = "sentence_text"]_vars

\* the second unit was written after the read of the first one timed out
C24_Witness ==
    /\ hist.sessions = <<"sentence">>
    /\ pc = "sentence_read"
    /\ Len(SynthesizeTexts(target_server.writer)) = 2
    /\ Len(hist.timed_out) = 1

\* C25: in sentence mode the AudioChunk or AudioStop that the read loop of a
\* unit is about to read was produced by the engine for that unit, also
\* after the read of an earlier unit timed out.
C25_TailDropped ==
    ( /\ hist.sessions = <<"sentence">>
      /\ pc = "sentence_read"
      /\ LinkUp
      /\ inflight # <<>>
      /\ Head(inflight).type \in {"audio-chunk", "audio-stop"} )
    => Head(inflight).unit = Len(wire[target_server.writer])

\* the audio frames waiting on the queue
Buffered == SelectSeq(audio_queue, LAMBDA item : item.kind = "audio")

\* C26: the queue of a native session holds fewer frames than the engine
\* can produce: whatever the engine sends, the reader task stops before all
\* of it is on the queue when the caller takes nothing.
C26_QueueBounded ==
    hist.sessions = <<"native">> => Len(Buffered) < MaxFrames

\* C27: the notification task is created at most once in a request, and
\* only with the primary as the connected target, a callback registered and
\* the header already yielded; the end of the task, normal or not, changes
\* nothing of the request, and every step the session or its caller can
\* take with the task ended it can take with the task still running.
C27_CallbackOnce ==
    /\ [](/\ hist.callbacks <= 1
          /\ hist.callback # None <=> hist.callbacks = 1
          /\ hist.callbacks = 1 =>
                /\ target_server.is_primary
                /\ self.on_primary_connect_callback
                /\ out # <<>> /\ out[1].kind = "header"
          /\ (conn["fallback"] # "idle" \/ target_server = NoServer) =>
                hist.callbacks = 0
          /\ hist.callback = "running" =>
                /\ pc = "sentence_yield" => ENABLED SentencePull
                /\ pc = "native_yield" => ENABLED NativePull
                /\ (pc = "native_get" /\ audio_queue # <<>>) => ENABLED NativeGet)
    /\ [][(hist.callback = "running" /\ hist'.callback # "running") =>
            UNCHANGED << pc, error, out, resp, conn, wire, audio_queue,
                         writer_task, reader_task >>]_vars

\* the notification task failed and the request delivered its audio and
\* ended normally
C27_Witness ==
    /\ hist.callback = "failed"
    /\ pc = "done"
    /\ error = None
    /\ AudioOf(out) # <<>>

\* C28: every call of _form_sentence on a buffer without terminator that is
\* longer than max_chars returns a unit of at most max_chars characters;
\* when the buffer holds whitespace below the ceiling, the unit is what
\* precedes the last such whitespace; and the unit is the first max_chars
\* characters, cut as they are, only when the buffer holds no whitespace.
C28_SplitBelowCeiling ==
    \A k \in 1..Len(hist.calls) :
        LET b == hist.calls[k].buffer_text
            ws == {i \in 1..Len(b) : b[i] \in Whitespace}
            below == {i \in ws : i - 1 < max_chars}
            p == CHOOSE i \in below : \A j \in below : j <= i
        IN ((\A i \in 1..Len(b) : b[i] \notin Terminators) /\ Len(b) > max_chars) =>
             /\ Len(hist.calls[k].sentence) <= max_chars
             /\ below # {} => hist.calls[k].sentence = Strip(SubSeq(b, 1, p - 1))
             /\ ( /\ hist.calls[k].sentence = SubSeq(b, 1, max_chars)
                  /\ hist.calls[k].rest = SubSeq(b, max_chars + 1, Len(b)) )
                => ws = {}

\* C29: whenever the segmenter has finished with a fragment, the buffer it
\* keeps holds no terminator apart from decimal points and is at most
\* max_chars characters long.
C29_BufferBounded ==
    pc = "segmenter" =>
        /\ FirstTerminator(ProtectDecimals(text_buffer)) = -1
        /\ Len(text_buffer) <= max_chars

\* C30: every call of _form_sentence on a buffer that holds no terminator
\* apart from decimal points and is at most max_chars characters long
\* returns no unit and the buffer itself as the rest.
C30_KeepsAccumulating ==
    \A k \in 1..Len(hist.calls) :
        LET b == hist.calls[k].buffer_text
        IN (FirstTerminator(ProtectDecimals(b)) = -1 /\ Len(b) <= max_chars) =>
              /\ hist.calls[k].sentence = <<>>
              /\ hist.calls[k].rest = b

\* C31: every call of the earlier _form_sentence on a buffer that holds one
\* of ".", "!", "?" returns the text up to and including the terminator
\* that comes first in the buffer, and what follows it as the rest.
C31_LegacyFirstTerminator ==
    \A k \in 1..Len(hist.calls) :
        LET b == hist.calls[k].buffer_text
            hits == {i \in 1..Len(b) : b[i] \in {".", "!", "?"}}
            first == CHOOSE i \in hits : \A j \in hits : i <= j
        IN hits # {} =>
              /\ hist.calls[k].sentence = SubSeq(b, 1, first)
              /\ hist.calls[k].rest = SubSeq(b, first + 1, Len(b))

-----------------------------------------------------------------------------
(* Properties of the engine handlers (EngineSpec). *)

\* the syntheses open after the first i events written to a client
AudioOpen(log, i) ==
    Cardinality({j \in 1..i : log[j].type = "audio-start"})
      - Cardinality({j \in 1..i : log[j].type = "audio-stop"})

\* the AudioStart the i-th event written to a client lies behind
StartBefore(log, i) ==
    CHOOSE j \in 1..i :
       /\ log[j].type = "audio-start"
       /\ \A k \in (j + 1)..i : log[k].type # "audio-start"

\* C32: in both engine handlers every AudioStart written to a client is
\* followed on that connection by exactly one AudioStop before any further
\* AudioStart, however the synthesis ends (normally, by a timeout of the
\* first or of a later read, at the end of Piper's stdout, by an exception
\* while streaming), and the AudioChunks of a request lie between its
\* AudioStart and its AudioStop: at no point of a connection's output is
\* more than one synthesis open or an AudioStop written with none open, an
\* AudioChunk or AudioStop belongs to the request of the AudioStart before
\* it, and a synthesis is open only while the handler reads Piper's stdout.
C32_StartStopPaired ==
    \A c \in Clients :
       LET log == out[c]
       IN /\ \A i \in 1..Len(log) :
               /\ AudioOpen(log, i) \in {0, 1}
               /\ log[i].type = "audio-chunk" =>
                     /\ AudioOpen(log, i) = 1
                     /\ log[StartBefore(log, i)].request = log[i].request
               /\ log[i].type = "audio-stop" =>
                     log[StartBefore(log, i)].request = log[i].request
          /\ AudioOpen(log, Len(log)) = 1 => Reads(c)

\* a synthesis of the plain handler sent audio and then raised: Error and
\* AudioStop end the output of the connection
C32_Witness ==
    \E c \in Clients :
       /\ self.version = "plain"
       /\ conn[c].at = "closed"
       /\ Len(out[c]) >= 4
       /\ out[c][Len(out[c]) - 2].type = "audio-chunk"
       /\ out[c][Len(out[c]) - 1].type = "error"
       /\ out[c][Len(out[c])].type = "audio-stop"

\* the SynthesizeStop messages of the streaming sessions of a client: the
\* m-th message is a SynthesizeStop and a SynthesizeStart came before it
SessionStops(c) ==
    {m \in 1..Len(wire[c]) :
       /\ wire[c][m].type = "synthesize-stop"
       /\ \E k \in 1..(m - 1) : wire[c][k].type = "synthesize-start"}

\* the SynthesizeStopped events written for the m-th message of a client
StoppedFor(c, m) ==
    {i \in 1..Len(out[c]) :
       /\ out[c][i].type = "synthesize-stopped"
       /\ out[c][i].request[2] = m}

\* the events of the session that ends with the m-th message come before
\* every SynthesizeStopped written for it, the last of them an AudioStop
\* when the session had audio
StoppedLast(c, m) ==
    \A i \in StoppedFor(c, m) :
       /\ \A j \in 1..Len(out[c]) :
             out[c][j].request[2] <= m /\ j # i => j < i
       /\ i > 1 /\ out[c][i - 1].type # "synthesize-stopped"
             => out[c][i - 1].type = "audio-stop"

\* C33 as stated: in the 1.6 handler every streaming session received on a
\* connection is answered by exactly one SynthesizeStopped, written after
\* the AudioStop of its last sentence and after all its AudioChunks; here
\* for every session whose SynthesizeStop the handler is through with, by
\* returning or by closing the connection.
C33_EverySessionAnswered ==
    self.version = "1.6" =>
       \A c \in Clients : \A m \in SessionStops(c) :
          \/ conn[c].pos >= m
          \/ (conn[c].at = "closed" /\ conn[c].pos = m - 1)
          => /\ Cardinality(StoppedFor(c, m)) = 1
             /\ StoppedLast(c, m)

\* C33, amended: the 1.6 handler running with the streaming option answers
\* every streaming session whose SynthesizeStop it handles without an
\* exception by exactly one SynthesizeStopped, written after the AudioStop
\* of the last sentence and after all AudioChunks of the session; a session
\* whose SynthesizeStop is not handled to its end (a synthesis raised, the
\* connection is closed) and a session sent to a handler without the option
\* get no SynthesizeStopped.
C33_SessionAnswered ==
    self.version = "1.6" =>
       \A c \in Clients : \A m \in SessionStops(c) :
          /\ Cardinality(StoppedFor(c, m)) =
                (IF self.streaming /\ conn[c].pos >= m THEN 1 ELSE 0)
          /\ StoppedLast(c, m)

\* a session whose remainder was synthesized at SynthesizeStop: audio, then
\* AudioStop, then SynthesizeStopped
C33_Witness ==
    \E c \in Clients : \E m \in SessionStops(c) : \E i \in StoppedFor(c, m) :
       /\ self.version = "1.6"
       /\ i > 2
       /\ out[c][i - 1].type = "audio-stop"
       /\ out[c][i - 1].request[2] = m
       /\ out[c][i - 2].type = "audio-chunk"

\* the handlers that are inside a synthesis: from the lock taken to the
\* AudioStop written
Synthesizing == {c \in Clients : conn[c].at \in {"locked", "start", "reading"}}

\* C36: in the 1.6 handler processes_lock is held from before the text is
\* written to Piper's stdin until AudioStop has been sent: a handler inside
\* a synthesis, and a connection with an AudioStart not yet followed by its
\* AudioStop, holds the lock; so at most one synthesis is in progress over
\* all connections, and the process a handler writes to and reads from is
\* still the one kept for its voice and has not been stopped by get_process.
C36_LockHeldThroughout ==
    self.version = "1.6" =>
       /\ \A c \in Synthesizing : engine.lock = c
       /\ \A c \in Clients :
             AudioOpen(out[c], Len(out[c])) = 1 => engine.lock = c
       /\ Cardinality(Synthesizing) <= 1
       /\ \A c \in Clients :
             conn[c].at \in {"start", "reading"} =>
                /\ engine.processes[conn[c].voice] = conn[c].piper_proc
                /\ engine.procs[conn[c].piper_proc].state # "terminated"

\* a 1.6 handler reads the audio of its synthesis while the handler of the
\* other connection waits for the lock with a request for another voice,
\* which will stop the process being read from
C36_Witness ==
    \E c \in Clients, d \in Clients :
       /\ self.version = "1.6"
       /\ conn[c].at = "reading"
       /\ out[c][Len(out[c])].type = "audio-chunk"
       /\ conn[d].at = "synthesize"
       /\ conn[d].voice # conn[c].voice

\* C37: in the timeout-based handler the audio chunks a client receives
\* between its AudioStart and AudioStop were produced by Piper for that
\* client's own Synthesize request, also with two clients synthesizing with
\* one voice at a time and after a request that ended by a read timeout:
\* every AudioChunk written for a request carries audio made for it.
C37_OwnAudio ==
    self.version = "plain" =>
       \A c \in Clients : \A i \in 1..Len(out[c]) :
          out[c][i].type = "audio-chunk" =>
             out[c][i].made_for = out[c][i].request

\* the words of a text: its maximal runs of characters that are not
\* whitespace
WordStarts(s) ==
    {i \in 1..Len(s) : s[i] \notin Whitespace /\ (i = 1 \/ s[i - 1] \in Whitespace)}
WordAt(s, i) ==
    SubSeq(s, i, CHOOSE j \in i..Len(s) :
                    /\ \A k \in i..j : s[k] \notin Whitespace
                    /\ (j = Len(s) \/ s[j + 1] \in Whitespace))
Words(s) == {WordAt(s, i) : i \in WordStarts(s)}

\* w is a contiguous part of v
PartOf(w, v) ==
    \E k \in 0..(Len(v) - Len(w)) : SubSeq(v, k + 1, k + Len(w)) = w

\* C34: word boundaries survive segmentation across fragments: when the
\* first fragment made the segmenter emit a unit and retain text that ends
\* with whitespace, and the second fragment starts with a character that is
\* not whitespace, then no unit joins two words into one: every word of
\* every unit is a word, or a part of a word, of one of the fragments.
C34_WordBoundaries ==
    pc \in {"segmenter", "segmented"} /\ Len(text_stream.fed) = 2 =>
       LET first == text_stream.fed[1]
           second == text_stream.fed[2]
           retained == Segment(first, <<>>, <<>>)
       IN /\ retained.units # <<>>
          /\ retained.buffer # <<>>
          /\ first[Len(first)] \in Whitespace
          /\ second # <<>>
          /\ second[1] \notin Whitespace
          => \A u \in 1..Len(hist.units) : \A w \in Words(hist.units[u]) :
                \E v \in Words(first) \cup Words(second) : PartOf(w, v)

\* C35: once the entity has loaded the voice list successfully, it stays
\* loaded under every interleaving of the first load and the loads the
\* notifications start: _voices_loaded does not return to False, the stored
\* list is not cleared, and no later notification queries the server again.
C35_StaysLoaded ==
    hist.loaded_once =>
       /\ self._voices_loaded
       /\ hist.stored # {} => self._voices # {}
       /\ hist.late_queries = 0

\* the bytes of audio payload among the chunks collected
PayloadBytes == SumLen(SelectSeq(out, LAMBDA chunk : chunk.kind = "audio"))

\* C38: the WAV async_get_tts_audio returns is one container header whose
\* data-size field is the number of audio payload bytes received from the
\* engine and whose RIFF size field is 36 plus that number, followed by
\* exactly those payload bytes and nothing else.
C38_LegacyWav ==
    pc = "returned" =>
       /\ resp.header.data_size = L(PayloadBytes)
       /\ resp.header.chunk_size = L(36 + PayloadBytes)
       /\ resp.data = SelectSeq(out, LAMBDA chunk : chunk.kind = "audio")

=============================================================================
